---- MODULE Spec2Model ----
(***************************************************************************)
(* The speech-segmentation and turn-taking engine of the XiaoTang          *)
(* companion: the capture thread of VoiceListener (senses/voice_listener)  *)
(* and the orchestrator of XiaoTang (main.py).                             *)
(***************************************************************************)
EXTENDS Integers, Sequences, FiniteSets, TLC

(***************************************************************************)
(* Program constants of VoiceListener. Times are in milliseconds.          *)
(* GraceDelay and UnmuteDelay are the two sleeps of the response loop,     *)
(* asyncio.sleep(0.3) and asyncio.sleep(0.5), in tenths of a second.       *)
(***************************************************************************)
FRAME_DURATION_MS == 30
SPEECH_START_FRAMES == 8
SILENCE_END_FRAMES == 30
MIN_SPEECH_DURATION_MS == 800
MAX_SPEECH_DURATION_MS == 30000
ENERGY_THRESHOLD == 300
GraceDelay == 3
UnmuteDelay == 5

(***************************************************************************)
(* Bounds of the model.                                                    *)
(*   MaxSegFrames  the free environment stops feeding an open Segment that *)
(*                 holds this many frames                                  *)
(*   BurstGap      the time one read takes while the thread drains a       *)
(*                 backlog of frames the device has already buffered       *)
(*   LongRun       the length of the continuously voiced scripted input    *)
(*   ScenarioVoiced, ScenarioSilent   the frames of the scripted utterance: *)
(*                 1.2 s of voice, then 1.0 s of silence                   *)
(*   MaxStimuli    the stimuli put on the queue in one run                 *)
(*   MaxSegments   the segments of the longest reply                       *)
(*   MaxUtterances the utterances enqueued in one run of SpecInterrupt     *)
(*   MaxTaskStimuli   the stimuli enqueued in one run of SpecTasks        *)
(*   MaxPending       the interruptions made pending in one Speaking span  *)
(*   MaxTranscriptionLen   the characters of the longest transcription of  *)
(*                 SpecEcho                                                *)
(***************************************************************************)
MaxSegFrames == 40
BurstGap == 10
LongRun == 1012
ScenarioVoiced == 40
ScenarioSilent == 34
MaxStimuli == 4
MaxSegments == 3
MaxUtterances == 2
MaxTaskStimuli == 1
MaxPending == 2
MaxTranscriptionLen == 3

VARIABLES
    muted,              \* self._muted, written by the scheduler
    pc,                 \* position of the capture thread: "read" | "process"
    seen_muted,         \* the flag as the capture thread last read it (line 248)
    frame,              \* raw_bytes with its is_voiced verdict
    ring_buffer,        \* deque(maxlen = SPEECH_START_FRAMES) of frames
    speech_frames,      \* the open Segment's frames, as a bag by energy
    is_speaking,
    since_start,        \* time.time() - speech_start_time while a Segment is open
    silent_frame_count,
    posted,             \* what the last frame posted to the event loop
    ended,              \* the Segment the last frame closed or reset, or NoSegment
    read_gap,           \* wall-clock time one stream.read takes
    script,             \* the scripted input, <<>> when the input is free
    input,              \* the part of the script still to be read
    tally,              \* events posted and gate verdicts so far (scripted runs)
    stream,             \* the input stream of _capture_loop and what became of it
    read_errors,        \* how many times stream.read raised
    _message_queue,     \* XiaoTang._message_queue, the stimuli not yet drained
    _is_speaking,       \* XiaoTang._is_speaking
    _current_tts_text,  \* the segment being played, <<>> for ""
    _pending_interruption,  \* <<>> for None
    idle,               \* AFKDetector.is_afk: no activity for the timeout
    _is_afk,            \* AFKDetector._is_afk: on_afk_start fired, on_afk_end not
    _running,           \* VoiceListener._running (ears.is_running)
    _http_client,       \* VoiceListener._http_client
    spc,                \* position of VoiceListener.stop
    tasks,              \* the _transcribe_and_dispatch tasks, one per dispatch
    stale,              \* a capture thread that has outlived its stop()
    rpc,                \* position of _response_loop, one value per await
    batch,              \* first, then the drained Turn
    is_voice,           \* the Turn's source is voice
    segments,           \* the reply's segments
    seg_index,          \* i of the segment loop, counted from 1
    int_segments,       \* the segments of the interruption's reply
    int_index,          \* j of the inner loop, counted from 1
    timer,              \* ticks left of the asyncio.sleep in progress
    event,              \* a transcription event posted and not yet handled
    heard,              \* the last transcription handled and what became of it
    arrived,            \* how many stimuli were put on the queue
    window,             \* ids of the stimuli enqueued in the grace interval
    flushed,            \* ids _flush_message_queue dropped since the last get
    turn,               \* the Turn drained last
    spoken,             \* segments played since Speaking was entered
    consumed_at,        \* seg_index at which an interruption was consumed, or 0
    decision,           \* what the decision collaborator answered, or "none"
    reply_calls,        \* calls of _generate_reply for the Turn drained last
    replied,            \* whether that Turn's reply was a text to speak
    handled,            \* the text handed to _handle_interruption, or none
    interruptions,      \* texts made pending since Speaking was entered
    failures,           \* speak() calls that raised since Speaking was entered
    split,              \* a call of _split_subtitles: argument and result
    _lock,              \* TTSEngine._lock: the task whose speak() holds it
    _waiters,           \* the tasks whose speak() waits for the lock, in order
    _last_voice_input_at,   \* 0 as set by __init__, 1 once it holds a time
    ppc,                \* position of _proactive_loop, one value per await
    p_segments,         \* the segments of the proactive comment
    p_index,            \* i of its segment loop, counted from 1
    p_timer,            \* ticks left of its asyncio.sleep(0.5)
    wpc                 \* position of _welcome_viewer

\* the locals of the capture thread
lvars == <<pc, seen_muted, frame, ring_buffer, speech_frames, is_speaking,
           since_start, silent_frame_count, posted, ended, read_gap, script,
           input, tally, stream, read_errors>>

cvars == <<muted, lvars>>

\* the Speaking state
svars == <<_is_speaking, _current_tts_text, _pending_interruption>>

\* the queue and its history
qvars == <<_message_queue, arrived, window, flushed>>

\* the AFK detector and the listener it starts and stops
evars == <<_http_client, spc, tasks, stale>>

avars == <<idle, _is_afk, _running, evars>>

\* the locals of _response_loop and the history of what it played
rvars == <<rpc, batch, is_voice, segments, seg_index, int_segments, int_index,
           timer, turn, spoken, consumed_at, decision,
           reply_calls, replied, handled, interruptions, failures,
           split>>

\* the lock of the speech engine
kvars == <<_lock, _waiters>>

\* the locals of the proactive loop and of the welcome handler
tvars == <<ppc, p_segments, p_index, p_timer, wpc>>

ovars == <<svars, qvars, avars, rvars, event, heard, kvars,
           _last_voice_input_at, tvars>>

vars == <<cvars, ovars>>

(***************************************************************************)
(* Frames. A frame is what the code reads of it: its RMS energy and the    *)
(* verdict of the statistical detector.                                    *)
(***************************************************************************)
RmsLevels == {100, 600}

VoicedFrame == [rms |-> 600, vad |-> TRUE]
SilentFrame == [rms |-> 100, vad |-> FALSE]
NoisyFrame == [rms |-> 100, vad |-> TRUE]

Frames == {VoicedFrame, SilentFrame, NoisyFrame}

NoFrame == [rms |-> 0, voiced |-> FALSE]

\* is_voiced: the detector's verdict, overridden when the energy is too low
IsVoiced(f) == IF f.rms < ENERGY_THRESHOLD THEN FALSE ELSE f.vad

\* deque.append on a deque with maxlen: the oldest entry falls out
RingAppend(ring, f) ==
    IF Len(ring) < SPEECH_START_FRAMES
    THEN Append(ring, f)
    ELSE Append(Tail(ring), f)

\* voiced_count = sum(1 for _, v in ring_buffer if v)
VoicedCount(ring) == Cardinality({i \in 1..Len(ring) : ring[i].voiced})

OnsetReachedOffByOne(ring) == VoicedCount(ring) >= SPEECH_START_FRAMES - 1

\* the onset test of the capture loop
OnsetReached(ring) == VoicedCount(ring) >= SPEECH_START_FRAMES

(***************************************************************************)
(* speech_frames as a bag: how many frames of each energy it holds. The    *)
(* code reads its length and its energy; the order matters to the WAV      *)
(* payload only.                                                           *)
(***************************************************************************)
NoFrames == [l \in RmsLevels |-> 0]

AddFrame(frames, f) == [frames EXCEPT ![f.rms] = @ + 1]

FramesOfRingDropped(ring) == NoFrames

RECURSIVE FramesOfRing(_)
\* speech_frames = [f for f, _ in ring_buffer]
FramesOfRing(ring) ==
    IF ring = <<>> THEN NoFrames
    ELSE AddFrame(FramesOfRing(Tail(ring)), Head(ring))

RECURSIVE SumOver(_, _)
SumOver(S, frames) ==
    IF S = {} THEN [n |-> 0, sq |-> 0]
    ELSE LET l == CHOOSE x \in S : TRUE
             r == SumOver(S \ {l}, frames)
         IN [n |-> r.n + frames[l], sq |-> r.sq + frames[l] * l * l]

FrameCount(frames) == SumOver(RmsLevels, frames).n

\* avg_energy < ENERGY_THRESHOLD, avg_energy the RMS over all samples
\* (0.0 for an empty list)
QuietSegment(frames) ==
    LET s == SumOver(RmsLevels, frames)
    IN IF s.n = 0 THEN TRUE
       ELSE s.sq < ENERGY_THRESHOLD * ENERGY_THRESHOLD * s.n

GateNoFloor(duration, frames, playing) ==
    IF QuietSegment(frames) THEN "quiet"
    ELSE IF playing THEN "system_audio"
    ELSE "forward"

GateIgnoresProbe(duration, frames, playing) ==
    IF duration < MIN_SPEECH_DURATION_MS THEN "short"
    ELSE IF QuietSegment(frames) THEN "quiet"
    ELSE "forward"

\* the admission chain after a Segment is closed
Gate(duration, frames, playing) ==
    IF duration < MIN_SPEECH_DURATION_MS THEN "short"
    ELSE IF QuietSegment(frames) THEN "quiet"
    ELSE IF playing THEN "system_audio"
    ELSE "forward"

EndReachedAtMaximumOnly(silent, duration) ==
    duration >= MAX_SPEECH_DURATION_MS

EndReachedLate(silent, duration) ==
    \/ silent >= SILENCE_END_FRAMES
    \/ duration > MAX_SPEECH_DURATION_MS

EndReachedEarly(silent, duration) ==
    \/ silent >= SILENCE_END_FRAMES - 1
    \/ duration >= MAX_SPEECH_DURATION_MS

EndReachedAtFirstSilence(silent, duration) ==
    \/ silent >= 1
    \/ duration >= MAX_SPEECH_DURATION_MS

\* the end conditions: enough silence or the maximum duration
EndReached(silent, duration) ==
    \/ silent >= SILENCE_END_FRAMES
    \/ duration >= MAX_SPEECH_DURATION_MS

NoSegment == [frames |-> NoFrames, duration |-> -1, verdict |-> "none",
              muted |-> FALSE, playing |-> FALSE]

Event(type, duration, n) == [type |-> type, duration |-> duration, frames |-> n]

Types(events) == {events[i].type : i \in 1..Len(events)}

EventTypes == {"speech_start", "speech_end", "transcribe"}

Verdicts == {"short", "quiet", "system_audio", "forward"}

\* a Segment was closed (not reset) by the last frame
Closed == ended.verdict \in Verdicts

CountOf(events, t) == Cardinality({i \in 1..Len(events) : events[i].type = t})

(***************************************************************************)
(* The capture thread, VoiceListener._capture_loop. One frame is two       *)
(* steps, since the scheduler may write the mute flag between the frame's  *)
(* mute check and the rest of its iteration.                               *)
(***************************************************************************)

DiscardKeepsSegment ==
    /\ pc' = "read"
    /\ frame' = NoFrame
    /\ ended' = NoSegment
    /\ UNCHANGED <<is_speaking, speech_frames, ring_buffer,
                   silent_frame_count, since_start>>

\* Lines 247-254: the flag is set, drop the frame and reset an open Segment.
Discard ==
    /\ pc' = "read"
    /\ frame' = NoFrame
    /\ IF is_speaking
       THEN /\ is_speaking' = FALSE
            /\ speech_frames' = NoFrames
            /\ ring_buffer' = <<>>
            /\ silent_frame_count' = 0
            /\ since_start' = 0
            /\ ended' = [frames |-> speech_frames, duration |-> since_start,
                         verdict |-> "reset", muted |-> TRUE,
                         playing |-> FALSE]
       ELSE /\ ended' = NoSegment
            /\ UNCHANGED <<is_speaking, speech_frames, ring_buffer,
                           silent_frame_count, since_start>>

\* Lines 256-267: the frame's energy and its is_voiced verdict.
Classify(f) ==
    /\ pc' = "process"
    /\ ended' = NoSegment
    /\ frame' = [rms |-> f.rms, voiced |-> IsVoiced(f)]
    /\ since_start' = IF is_speaking THEN since_start + read_gap
                      ELSE since_start
    /\ UNCHANGED <<is_speaking, speech_frames, ring_buffer,
                   silent_frame_count>>

CaptureReadIgnoresMute(f) ==
    /\ pc = "read"
    /\ posted' = <<>>
    /\ seen_muted' = muted
    /\ Classify(f)
    /\ UNCHANGED <<muted, read_gap>>

\* Lines 241-267: read a frame, check the mute flag, classify the frame.
CaptureRead(f) ==
    /\ pc = "read"
    /\ posted' = <<>>
    /\ seen_muted' = muted
    /\ IF muted THEN Discard ELSE Classify(f)
    /\ UNCHANGED <<muted, read_gap>>

\* Lines 269-281: not speaking, look for the onset.
SeekOnset ==
    LET ring == RingAppend(ring_buffer, frame) IN
    /\ ended' = NoSegment
    /\ IF OnsetReached(ring)
       THEN /\ is_speaking' = TRUE
            /\ since_start' = 0
            /\ silent_frame_count' = 0
            /\ speech_frames' = FramesOfRing(ring)
            /\ ring_buffer' = <<>>
            /\ posted' = <<Event("speech_start", 0, 0)>>
       ELSE /\ ring_buffer' = ring
            /\ posted' = <<>>
            /\ UNCHANGED <<is_speaking, since_start, silent_frame_count,
                           speech_frames>>

\* the events of a closing frame if speech_end went with the dispatch
EndEventsForwardedOnly(duration, verdict, n) ==
    IF verdict = "forward"
    THEN <<Event("speech_end", duration, 0), Event("transcribe", duration, n)>>
    ELSE <<>>

\* Lines 299-333: speech_end for every closed Segment, then the dispatch of
\* the one the gate admits
EndEvents(duration, verdict, n) ==
    <<Event("speech_end", duration, 0)>> \o
    (IF verdict = "forward" THEN <<Event("transcribe", duration, n)>>
     ELSE <<>>)

\* Lines 282-337: a Segment is open, record the frame and close the Segment
\* when an end condition holds; playing is the output-device probe's answer.
Record(playing) ==
    LET frames == AddFrame(speech_frames, frame)
        silent == IF ~frame.voiced THEN silent_frame_count + 1 ELSE 0
        duration == since_start
        verdict == Gate(duration, frames, playing)
    IN IF EndReached(silent, duration)
       THEN /\ is_speaking' = FALSE
            /\ posted' = EndEvents(duration, verdict, FrameCount(frames))
            /\ ended' = [frames |-> frames, duration |-> duration,
                         verdict |-> verdict, muted |-> muted,
                         playing |-> playing]
            /\ speech_frames' = NoFrames
            /\ ring_buffer' = <<>>
            /\ silent_frame_count' = 0
            /\ since_start' = 0
       ELSE /\ speech_frames' = frames
            /\ silent_frame_count' = silent
            /\ posted' = <<>>
            /\ ended' = NoSegment
            /\ UNCHANGED <<is_speaking, ring_buffer, since_start>>

\* Lines 269-337: the rest of the frame's iteration.
ProcessFrame ==
    /\ pc = "process"
    /\ pc' = "read"
    /\ IF is_speaking
       THEN \E playing \in BOOLEAN : Record(playing)
       ELSE SeekOnset
    /\ UNCHANGED <<muted, seen_muted, frame, read_gap>>

\* VoiceListener.mute, called on the scheduler thread
Mute ==
    /\ muted' = TRUE
    /\ UNCHANGED <<pc, seen_muted, frame, ring_buffer, speech_frames,
                   is_speaking, since_start, silent_frame_count, posted,
                   ended, read_gap>>

\* VoiceListener.unmute, called on the scheduler thread
Unmute ==
    /\ muted' = FALSE
    /\ UNCHANGED <<pc, seen_muted, frame, ring_buffer, speech_frames,
                   is_speaking, since_start, silent_frame_count, posted,
                   ended, read_gap>>

(***************************************************************************)
(* The orchestrator's state after XiaoTang.__init__ and start(): nothing   *)
(* queued, not speaking, the user present and the listener running, the    *)
(* response loop waiting for its first stimulus. Texts are sequences of    *)
(* characters, <<>> the empty text.                                        *)
(***************************************************************************)
NoText == <<>>

\* no call of _split_subtitles is looked at
NoSplit == [text |-> NoText, segments |-> <<>>, done |-> FALSE]

NoEvent == [text |-> NoText, posted |-> FALSE]

NotHeard == [text |-> NoText, speaking |-> FALSE, playing |-> NoText,
             outcome |-> "none"]

\* the listener after start(): its client made, no stop() under way
InitEars ==
    /\ _http_client = "open"
    /\ spc = "idle"
    /\ tasks = <<>>
    /\ stale = "none"

InitOrchestrator ==
    /\ InitEars
    /\ _message_queue = <<>>
    /\ _is_speaking = FALSE
    /\ _current_tts_text = NoText
    /\ _pending_interruption = NoText
    /\ idle = FALSE
    /\ _is_afk = FALSE
    /\ _running = TRUE
    /\ rpc = "get"
    /\ batch = <<>>
    /\ is_voice = FALSE
    /\ segments = <<>>
    /\ seg_index = 0
    /\ int_segments = <<>>
    /\ int_index = 0
    /\ timer = 0
    /\ event = NoEvent
    /\ heard = NotHeard
    /\ arrived = 0
    /\ window = {}
    /\ flushed = {}
    /\ turn = <<>>
    /\ spoken = <<>>
    /\ consumed_at = 0
    /\ decision = "none"
    /\ reply_calls = 0
    /\ replied = FALSE
    /\ handled = NoText
    /\ interruptions = <<>>
    /\ failures = 0
    /\ split = NoSplit
    /\ _lock = "free"
    /\ _waiters = <<>>
    /\ _last_voice_input_at = 0
    /\ ppc = "sleep"
    /\ p_segments = <<>>
    /\ p_index = 0
    /\ p_timer = 0
    /\ wpc = "idle"

(***************************************************************************)
(* Environments of the capture thread.                                     *)
(***************************************************************************)
ReadGaps == {FRAME_DURATION_MS, BurstGap}

InitLocals ==
    /\ muted = FALSE
    /\ pc = "read"
    /\ seen_muted = FALSE
    /\ frame = NoFrame
    /\ ring_buffer = <<>>
    /\ speech_frames = NoFrames
    /\ is_speaking = FALSE
    /\ since_start = 0
    /\ silent_frame_count = 0
    /\ posted = <<>>
    /\ ended = NoSegment
    /\ tally = [t \in EventTypes \cup Verdicts |-> 0]
    /\ read_errors = 0

\* the capture thread in its loop, the device open
InitCapture == InitLocals /\ stream = "open"

\* Any frame may come next; the scheduler mutes and unmutes at any time.
FreeRead ==
    /\ is_speaking /\ ~muted => FrameCount(speech_frames) < MaxSegFrames
    /\ \E f \in Frames : CaptureRead(f)
    /\ UNCHANGED <<script, input, tally, stream, read_errors, ovars>>

FreeProcess ==
    /\ ProcessFrame
    /\ UNCHANGED <<script, input, tally, stream, read_errors, ovars>>

FreeMute ==
    /\ Mute
    /\ UNCHANGED <<script, input, tally, stream, read_errors, ovars>>

FreeUnmute ==
    /\ Unmute
    /\ UNCHANGED <<script, input, tally, stream, read_errors, ovars>>

Init ==
    /\ InitCapture
    /\ InitOrchestrator
    /\ read_gap \in ReadGaps
    /\ script = <<>>
    /\ input = <<>>

Next == FreeRead \/ FreeProcess \/ FreeMute \/ FreeUnmute

Spec == Init /\ [][Next]_vars

\* The frames come from a script, one per frame period, and nobody mutes.
Run(f, n) == [f |-> f, n |-> n]

\* 1.2 s of voiced frames, then 1.0 s of silence
SpeechThenSilence ==
    <<Run(VoicedFrame, ScenarioVoiced), Run(SilentFrame, ScenarioSilent)>>

\* every frame is voiced
ContinuousVoice == <<Run(VoicedFrame, LongRun)>>

Scripts ==
    { SpeechThenSilence,
      ContinuousVoice,
      <<Run(VoicedFrame, 2), Run(SilentFrame, 30)>>,
      <<Run(VoicedFrame, 7)>>,
      <<Run(VoicedFrame, 7), Run(SilentFrame, 1), Run(VoicedFrame, 7)>> }

ScriptRead ==
    /\ input # <<>>
    /\ CaptureRead(Head(input).f)
    /\ input' = IF Head(input).n = 1 THEN Tail(input)
                ELSE [input EXCEPT ![1].n = @ - 1]
    /\ UNCHANGED <<script, tally, stream, read_errors, ovars>>

ScriptProcess ==
    /\ ProcessFrame
    /\ tally' = [t \in EventTypes \cup Verdicts |->
                    tally[t] + CountOf(posted', t)
                             + (IF ended'.verdict = t THEN 1 ELSE 0)]
    /\ UNCHANGED <<script, input, stream, read_errors, ovars>>

InitScript ==
    /\ InitCapture
    /\ InitOrchestrator
    /\ read_gap = FRAME_DURATION_MS
    /\ script \in Scripts
    /\ input = script

NextScript == ScriptRead \/ ScriptProcess

SpecScript == InitScript /\ [][NextScript]_vars

(***************************************************************************)
(* The capture loop's claims.                                              *)
(***************************************************************************)
Abs(x) == IF x < 0 THEN -x ELSE x

Audio(frames) == FrameCount(frames) * FRAME_DURATION_MS

\* C1: a Segment is opened, and speech_start posted, exactly at a frame that
\* leaves SPEECH_START_FRAMES voiced frames in the onset ring buffer; a frame
\* that leaves fewer opens no Segment.
C1_OnsetExactlyAtThreshold ==
    [][ /\ (~is_speaking /\ is_speaking') <=>
              /\ pc = "process" /\ pc' = "read" /\ ~is_speaking
              /\ VoicedCount(RingAppend(ring_buffer, frame)) = SPEECH_START_FRAMES
        /\ (pc = "process" /\ pc' = "read") =>
              ((~is_speaking /\ is_speaking') <=>
                  "speech_start" \in Types(posted'))
      ]_vars

C1_Witness ==
    /\ is_speaking
    /\ posted = <<Event("speech_start", 0, 0)>>
    /\ FrameCount(speech_frames) = SPEECH_START_FRAMES

\* C2: whenever the capture thread has read the mute flag as set, the state
\* machine is clean (not speaking, no Segment frames, empty onset buffer,
\* zero silence counter), so that nothing captured before the mute counts
\* after the unmute.
C2_CleanWhileMuted ==
    seen_muted =>
        /\ ~is_speaking
        /\ speech_frames = NoFrames
        /\ ring_buffer = <<>>
        /\ silent_frame_count = 0

\* C3 as claimed: no Segment is closed (speech_end posted, transcription
\* dispatched or dropped by the gate) while the mute flag is set.
C3_NeverClosedWhileMuted == Closed => ~ended.muted

\* C3: a frame whose mute check read the flag as set never closes a Segment:
\* an open Segment is reset, and nothing is posted (no speech_end, no
\* transcription dispatch); only a frame that passed its mute check before
\* mute() can still close one.
C3_ObservedMuteResets ==
    /\ seen_muted =>
          /\ pc = "read"
          /\ ~is_speaking
          /\ speech_frames = NoFrames
          /\ posted = <<>>
          /\ ~Closed
    /\ ended.verdict = "reset" => seen_muted

C3_Witness ==
    /\ ended.verdict = "reset"
    /\ FrameCount(ended.frames) > SPEECH_START_FRAMES
    /\ muted

\* C4: a closed Segment whose duration is below MIN_SPEECH_DURATION is
\* dropped as short and never dispatched for transcription, whatever its
\* energy and the probe's answer.
C4_ShortNeverForwarded ==
    /\ (Closed /\ ended.duration < MIN_SPEECH_DURATION_MS) =>
          /\ ended.verdict = "short"
          /\ "transcribe" \notin Types(posted)
    /\ \A i \in 1..Len(posted) :
          posted[i].type = "transcribe" =>
              posted[i].duration >= MIN_SPEECH_DURATION_MS

C4_Witness ==
    /\ Closed
    /\ ended.duration < MIN_SPEECH_DURATION_MS
    /\ ~QuietSegment(ended.frames)

\* C5, first part: with every frame voiced the Segment is closed at the
\* first frame at which its duration is at least MAX_SPEECH_DURATION, not
\* earlier and not later.
C5_ClosedAtMaximum ==
    /\ (is_speaking /\ pc = "read") => since_start < MAX_SPEECH_DURATION_MS
    /\ (script = ContinuousVoice /\ Closed) =>
          /\ ended.duration >= MAX_SPEECH_DURATION_MS
          /\ ended.duration - read_gap < MAX_SPEECH_DURATION_MS

\* C5 as claimed: and the audio the closed Segment holds exceeds the maximum
\* by one frame at most.
C5_AudioWithinOneFrame ==
    /\ C5_ClosedAtMaximum
    /\ (script = ContinuousVoice /\ Closed) =>
          Audio(ended.frames) <= MAX_SPEECH_DURATION_MS + FRAME_DURATION_MS

\* C5: and, at one frame per frame period, the audio the closed Segment
\* holds exceeds the maximum by the SPEECH_START_FRAMES onset frames, which
\* its duration does not count, and one frame at most.
C5_AudioWithinOnset ==
    /\ C5_ClosedAtMaximum
    /\ (script = ContinuousVoice /\ Closed) =>
          /\ Audio(ended.frames) <= MAX_SPEECH_DURATION_MS
                 + (SPEECH_START_FRAMES + 1) * FRAME_DURATION_MS
          /\ Audio(ended.frames) >= MAX_SPEECH_DURATION_MS
                 + SPEECH_START_FRAMES * FRAME_DURATION_MS

C5_Witness ==
    /\ script = ContinuousVoice
    /\ Closed
    /\ ended.duration >= MAX_SPEECH_DURATION_MS
    /\ silent_frame_count = 0

\* C6 as claimed: a closed Segment's frame count is its duration divided by
\* the frame length, within one frame (here at one frame per frame period).
C6_FramesMatchDuration ==
    (Closed /\ read_gap = FRAME_DURATION_MS) =>
        Abs(Audio(ended.frames) - ended.duration) <= FRAME_DURATION_MS

\* C6: at one frame per frame period, a closed Segment's frame count is its
\* duration divided by the frame length plus the SPEECH_START_FRAMES onset
\* frames, within one frame.
C6_FramesMatchDurationPlusOnset ==
    (Closed /\ read_gap = FRAME_DURATION_MS) =>
        Abs(Audio(ended.frames)
            - (ended.duration + SPEECH_START_FRAMES * FRAME_DURATION_MS))
          <= FRAME_DURATION_MS

C6_Witness ==
    /\ Closed
    /\ read_gap = FRAME_DURATION_MS
    /\ FrameCount(ended.frames) > SPEECH_START_FRAMES + SILENCE_END_FRAMES

ScenarioDone == script = SpeechThenSilence /\ input = <<>> /\ pc = "read"

\* C7, the count: the scripted utterance gives exactly one Segment, which is
\* dispatched for transcription unless the probe reports output activity.
C7_OneSegmentForwarded ==
    /\ script = SpeechThenSilence =>
          /\ tally["speech_start"] <= 1
          /\ tally["speech_end"] <= 1
          /\ tally["transcribe"] <= 1
          /\ tally["short"] = 0 /\ tally["quiet"] = 0
    /\ (ScenarioDone /\ tally["system_audio"] = 0) =>
          /\ tally["speech_start"] = 1
          /\ tally["speech_end"] = 1
          /\ tally["transcribe"] = 1

\* C7 as claimed: and the Segment's reported duration is about the 1.2 s of
\* voice (within the onset window's length).
C7_DurationOfVoice ==
    /\ C7_OneSegmentForwarded
    /\ (script = SpeechThenSilence /\ Closed) =>
          Abs(ended.duration - ScenarioVoiced * FRAME_DURATION_MS)
             <= SPEECH_START_FRAMES * FRAME_DURATION_MS

\* C7: and the Segment's reported duration is the time from the onset to the
\* close: the voiced frames after the SPEECH_START_FRAMES onset frames and
\* the SILENCE_END_FRAMES silent frames that close it (1.86 s).
C7_DurationFromOnsetToClose ==
    /\ C7_OneSegmentForwarded
    /\ (script = SpeechThenSilence /\ Closed) =>
          /\ ended.duration =
                (ScenarioVoiced - SPEECH_START_FRAMES + SILENCE_END_FRAMES)
                   * FRAME_DURATION_MS
          /\ FrameCount(ended.frames) = ScenarioVoiced + SILENCE_END_FRAMES

C7_Witness == ScenarioDone /\ tally["transcribe"] = 1

(***************************************************************************)
(* Texts. A text is a sequence of characters, a character a string: the    *)
(* Latin letters and signs stand for themselves, a Chinese character is    *)
(* written as its pinyin after "zh_" ("zh_xie" for the first character of  *)
(* the first phrase of HALLUCINATIONS, "zh_stop" for the ideographic full  *)
(* stop).                                                                  *)
(***************************************************************************)
Whitespace == {" ", "\t", "\n"}

UpperCase ==
    <<"A", "B", "C", "D", "E", "F", "G", "H", "I", "J", "K", "L", "M",
      "N", "O", "P", "Q", "R", "S", "T", "U", "V", "W", "X", "Y", "Z">>

LowerCase ==
    <<"a", "b", "c", "d", "e", "f", "g", "h", "i", "j", "k", "l", "m",
      "n", "o", "p", "q", "r", "s", "t", "u", "v", "w", "x", "y", "z">>

LowerChar(ch) ==
    IF \E k \in DOMAIN UpperCase : UpperCase[k] = ch
    THEN LowerCase[CHOOSE k \in DOMAIN UpperCase : UpperCase[k] = ch]
    ELSE ch

\* str.lower
Lower(s) == [k \in 1..Len(s) |-> LowerChar(s[k])]

RECURSIVE LStrip(_, _)
LStrip(s, cs) ==
    IF s # <<>> /\ Head(s) \in cs THEN LStrip(Tail(s), cs) ELSE s

RECURSIVE RStrip(_, _)
RStrip(s, cs) ==
    IF s # <<>> /\ s[Len(s)] \in cs
    THEN RStrip(SubSeq(s, 1, Len(s) - 1), cs)
    ELSE s

\* str.strip(cs): drop the characters of cs from both ends
Strip(s, cs) == RStrip(LStrip(s, cs), cs)

\* set(s)
Chars(s) == {s[k] : k \in 1..Len(s)}

\* t in c
Contains(c, t) ==
    \E k \in 0..(Len(c) - Len(t)) : SubSeq(c, k + 1, k + Len(t)) = t

IsSelfEchoNever(transcription, current_tts) == FALSE

\* XiaoTang._is_self_echo; overlap > 0.7 as a comparison of integers
IsSelfEcho(transcription, current_tts) ==
    IF current_tts = NoText THEN FALSE
    ELSE LET t == Strip(Lower(transcription), Whitespace)
             c == Strip(Lower(current_tts), Whitespace)
         IN  IF Contains(c, t) \/ Contains(t, c) THEN TRUE
             ELSE IF Chars(t) = {} THEN FALSE
             ELSE 10 * Cardinality(Chars(t) \cap Chars(c))
                    > 7 * Cardinality(Chars(t))

\* the phrases the recogniser makes up on silence and noise
HALLUCINATIONS ==
    { <<"zh_xie", "zh_xie", "zh_guan", "zh_kan">>,
      <<"zh_gan", "zh_xie", "zh_guan", "zh_kan">>,
      <<"t", "h", "a", "n", "k", " ", "y", "o", "u", " ",
        "f", "o", "r", " ", "w", "a", "t", "c", "h", "i", "n", "g">>,
      <<"zh_qing", "zh_bu", "zh_lin", "zh_dian", "zh_zan">>,
      <<"zh_zi", "zh_mu", "zh_you">>,
      <<"s", "u", "b", "t", "i", "t", "l", "e", "s", " ", "b", "y">>,
      <<"t", "h", "a", "n", "k", "s", " ", "f", "o", "r", " ",
        "w", "a", "t", "c", "h", "i", "n", "g">>,
      <<"t", "h", "a", "n", "k", " ", "y", "o", "u">>,
      <<"t", "h", "a", "n", "k", " ", "y", "o", "u", ".">>,
      <<"y", "o", "u">>,
      <<"b", "y", "e">>,
      <<"b", "y", "e", ".">>,
      <<"t", "h", "e", " ", "e", "n", "d">>,
      <<"t", "h", "e", " ", "e", "n", "d", ".">>,
      <<"zh_en">>, <<"zh_a">>, <<"zh_o">>, <<"zh_e">>,
      <<".", ".", ".">>,
      <<"zh_stop">> }

\* text.lower().strip(" .。") in HALLUCINATIONS or len(text) < 2
Filtered(text) ==
    \/ Strip(Lower(text), {" ", ".", "zh_stop"}) \in HALLUCINATIONS
    \/ Len(text) < 2

(***************************************************************************)
(* The stimulus handlers, which run on the scheduler.                      *)
(***************************************************************************)
\* the consumer is in its grace interval: it has taken a first item and its
\* sleep is not over
InGrace == rpc = "grace" /\ timer > 0

\* _message_queue.put_nowait
Enqueue(source, text) ==
    LET item == [id |-> arrived + 1, source |-> source, text |-> text,
                 grace |-> InGrace]
    IN  /\ arrived < MaxStimuli
        /\ _message_queue' = Append(_message_queue, item)
        /\ arrived' = arrived + 1
        /\ window' = IF InGrace THEN window \cup {item.id} ELSE window
        /\ UNCHANGED flushed

\* the branch of _handle_voice_input a transcription takes
Outcome(raw) ==
    LET text == Strip(raw, Whitespace)
    IN  IF text = NoText THEN "empty"
        ELSE IF Filtered(text) THEN "hallucination"
        ELSE IF _is_speaking /\ IsSelfEcho(text, _current_tts_text)
        THEN "echo"
        ELSE IF _is_speaking THEN "interruption"
        ELSE "enqueued"

\* HandleVoiceInput, except that a pending interruption is not overwritten
HandleVoiceInputKeepsFirst(raw) ==
    LET text == Strip(raw, Whitespace)
    IN  CASE Outcome(raw) \in {"empty", "hallucination", "echo"} ->
                UNCHANGED <<svars, qvars, _last_voice_input_at>>
          [] Outcome(raw) = "interruption" ->
                /\ _pending_interruption' =
                      IF _pending_interruption = NoText THEN text
                      ELSE _pending_interruption
                /\ UNCHANGED <<_is_speaking, _current_tts_text, qvars,
                               _last_voice_input_at>>
          [] Outcome(raw) = "enqueued" ->
                /\ _last_voice_input_at' = 1
                /\ Enqueue("voice", text)
                /\ UNCHANGED svars

\* XiaoTang._handle_voice_input
HandleVoiceInput(raw) ==
    LET text == Strip(raw, Whitespace)
    IN  CASE Outcome(raw) \in {"empty", "hallucination", "echo"} ->
                UNCHANGED <<svars, qvars, _last_voice_input_at>>
          [] Outcome(raw) = "interruption" ->
                /\ _pending_interruption' = text
                /\ UNCHANGED <<_is_speaking, _current_tts_text, qvars,
                               _last_voice_input_at>>
          [] Outcome(raw) = "enqueued" ->
                /\ _last_voice_input_at' = 1
                /\ Enqueue("voice", text)
                /\ UNCHANGED svars

\* XiaoTang._is_active
IsActive == idle

\* XiaoTang._handle_danmaku
HandleDanmaku(text) ==
    IF text = NoText \/ ~IsActive
    THEN UNCHANGED qvars
    ELSE Enqueue("danmaku", text)

(***************************************************************************)
(* The voice handler on its own: a transcription event meets every         *)
(* Speaking state the response loop can leave at an await.                 *)
(***************************************************************************)
Alphabet == {"y", "o", "u", "Y", "a", " ", "."}

Texts(n) == UNION {[1..k -> Alphabet] : k \in 0..n}

\* segments the bot may be playing
PlayingTexts ==
    { <<"y", "o", "u">>, <<"a", "a">>, <<"y", "a", ".">>, <<"Y", "o">> }

\* an interruption that is still pending when the transcription arrives
EarlierTexts == {NoText, <<"a", "y">>}

OnTranscription ==
    /\ event.posted
    /\ HandleVoiceInput(event.text)
    /\ event' = NoEvent
    /\ heard' = [text |-> event.text, speaking |-> _is_speaking,
                 playing |-> _current_tts_text,
                 outcome |-> Outcome(event.text)]
    /\ UNCHANGED <<cvars, avars, rvars, kvars, tvars>>

InitEcho ==
    /\ InitCapture
    /\ read_gap = FRAME_DURATION_MS
    /\ script = <<>>
    /\ input = <<>>
    /\ _message_queue = <<>>
    /\ arrived = 0
    /\ window = {}
    /\ flushed = {}
    /\ idle = FALSE
    /\ _is_afk = FALSE
    /\ _running = TRUE
    /\ InitEars
    /\ _is_speaking \in BOOLEAN
    /\ _current_tts_text \in
           IF _is_speaking THEN PlayingTexts ELSE {NoText}
    /\ _pending_interruption \in EarlierTexts
    /\ rpc = IF _is_speaking THEN "play" ELSE "get"
    /\ batch = <<>>
    /\ is_voice = _is_speaking
    /\ segments = IF _is_speaking THEN <<_current_tts_text>> ELSE <<>>
    /\ seg_index = IF _is_speaking THEN 1 ELSE 0
    /\ int_segments = <<>>
    /\ int_index = 0
    /\ timer = 0
    /\ turn = <<>>
    /\ spoken = segments
    /\ consumed_at = 0
    /\ decision = "none"
    /\ reply_calls = 0
    /\ replied = FALSE
    /\ handled = NoText
    /\ interruptions = <<>>
    /\ failures = 0
    /\ split = NoSplit
    /\ _lock = IF _is_speaking THEN "response" ELSE "free"
    /\ _waiters = <<>>
    /\ _last_voice_input_at = IF _is_speaking THEN 1 ELSE 0
    /\ ppc = "sleep"
    /\ p_segments = <<>>
    /\ p_index = 0
    /\ p_timer = 0
    /\ wpc = "idle"
    /\ heard = NotHeard
    /\ event \in
           {[text |-> t, posted |-> TRUE] : t \in Texts(MaxTranscriptionLen)}

NextEcho == OnTranscription

SpecEcho == InitEcho /\ [][NextEcho]_vars

(***************************************************************************)
(* The voice handler's claim.                                              *)
(***************************************************************************)
\* a text as _is_self_echo compares it
Normal(s) == Strip(Lower(s), Whitespace)

\* under 30% of the distinct characters of t are characters of c
LowOverlap(t, c) ==
    10 * Cardinality(Chars(t) \cap Chars(c)) < 3 * Cardinality(Chars(t))

\* neither text contains the other
Unrelated(t, c) == ~Contains(c, t) /\ ~Contains(t, c)

\* the handler takes the posted transcription while the bot is Speaking
HandledWhileSpeaking == event.posted /\ ~event'.posted /\ _is_speaking

\* the transcription is dropped: neither enqueued nor made the interruption
Discarded == UNCHANGED <<_message_queue, _pending_interruption>>

\* the transcription becomes the pending interruption
MadeInterruption ==
    /\ _pending_interruption' = Strip(event.text, Whitespace)
    /\ UNCHANGED _message_queue

FarFromPlaying ==
    LET t == Normal(event.text)
        c == Normal(_current_tts_text)
    IN  t # NoText /\ LowOverlap(t, c) /\ Unrelated(t, c)

\* C8 as claimed: while Speaking, a transcription identical to the segment
\* being played is discarded, and one that shares under 30% of its distinct
\* characters with it and is unrelated to it becomes the pending
\* interruption.
C8_FarTextInterrupts ==
    [][HandledWhileSpeaking =>
          /\ event.text = _current_tts_text => Discarded
          /\ FarFromPlaying => MadeInterruption]_vars

\* C8: while Speaking, a transcription identical to the segment being played
\* is discarded, and one that shares under 30% of its distinct characters
\* with it and is unrelated to it (both compared in lower case, trimmed)
\* becomes the pending interruption unless the hallucination filter drops it
\* first: it is shorter than 2 characters or, in lower case and without the
\* spaces and full stops at its ends, one of the HALLUCINATIONS phrases.
C8_FarUnfilteredTextInterrupts ==
    [][HandledWhileSpeaking =>
          /\ event.text = _current_tts_text => Discarded
          /\ FarFromPlaying /\ ~Filtered(Strip(event.text, Whitespace))
                => MadeInterruption
          /\ Filtered(Strip(event.text, Whitespace)) => Discarded]_vars

C8_Witness ==
    /\ heard.speaking
    /\ heard.outcome = "interruption"
    /\ heard.text = <<"a", "a">>
    /\ heard.playing = <<"y", "o", "u">>
    /\ _pending_interruption = <<"a", "a">>
    /\ _message_queue = <<>>

(***************************************************************************)
(* The response loop, XiaoTang._response_loop. A step runs from one await  *)
(* that yields to the scheduler to the next: get, the two sleeps, the      *)
(* playback of a segment, the overlay's hide. _generate_reply and          *)
(* _handle_interruption call the language model synchronously, so nothing  *)
(* else runs on the scheduler during them. The sleeps are counted in       *)
(* ticks of a tenth of a second.                                           *)
(***************************************************************************)
\* the k-th segment of a reply, and of an interruption's reply
OriginalSegment(k) == [n \in 1..(k + 1) |-> "a"]

IntSegment(k) == [n \in 1..(k + 1) |-> "b"]

\* what _split_subtitles makes of a reply: at least one segment
Replies ==
    {[k \in 1..n |-> OriginalSegment(k)] : n \in 1..MaxSegments}

\* _generate_reply returned None or ""
NoReply == <<>>

\* the decision collaborator: a reply that yields, a short pushback line,
\* an empty reply, or an exception (None)
Decisions == {"yield", "persist", "empty", "fail"}

IntReplyFailSpeaks(d) ==
    CASE d = "yield" -> <<IntSegment(1), IntSegment(2)>>
      [] d = "persist" -> <<IntSegment(1)>>
      [] d = "empty" -> <<>>
      [] d = "fail" -> <<IntSegment(1)>>

IntReply(d) ==
    CASE d = "yield" -> <<IntSegment(1), IntSegment(2)>>
      [] d = "persist" -> <<IntSegment(1)>>
      [] d = "empty" -> <<>>
      [] d = "fail" -> <<>>

\* TTSEngine.speak, 'async with self._lock': a free lock is taken at once,
\* a held one is waited for
CallSpeak(task) ==
    IF _lock = "free"
    THEN _lock' = task /\ _waiters' = _waiters
    ELSE _lock' = _lock /\ _waiters' = Append(_waiters, task)

\* speak() of the holder returns: the lock goes to the first waiter
Release ==
    IF _waiters = <<>>
    THEN _lock' = "free" /\ _waiters' = <<>>
    ELSE _lock' = Head(_waiters) /\ _waiters' = Tail(_waiters)

\* speak() of the holder returns and the holder calls speak() again
ReleaseThenCall(task) ==
    IF _waiters = <<>>
    THEN _lock' = task /\ _waiters' = <<>>
    ELSE _lock' = Head(_waiters) /\ _waiters' = Append(Tail(_waiters), task)

\* ears.mute() if the listener is running (lines 573-574, 612-613)
MuteIfRunning == muted' = IF _running THEN TRUE ELSE muted

\* line 518: first = await self._message_queue.get()
Get ==
    /\ rpc = "get"
    /\ _message_queue # <<>>
    /\ batch' = <<Head(_message_queue)>>
    /\ _message_queue' = Tail(_message_queue)
    /\ rpc' = "grace"
    /\ timer' = GraceDelay
    /\ window' = {}
    /\ flushed' = {}
    /\ UNCHANGED <<cvars, svars, avars, arrived, is_voice,
                   segments, seg_index, int_segments, int_index, turn,
                   spoken, consumed_at, decision, reply_calls, replied,
                   handled,
                   interruptions, failures, split, event, heard, kvars,
                   _last_voice_input_at, tvars>>

\* a tenth of a second of the sleep in progress passes
Tick ==
    /\ timer > 0
    /\ timer' = timer - 1
    /\ UNCHANGED <<cvars, svars, qvars, avars, rpc, batch, is_voice, segments,
                   seg_index, int_segments, int_index, turn, spoken,
                   consumed_at, decision, reply_calls, replied, handled,
                   interruptions, failures, split, event, heard, kvars,
                   _last_voice_input_at, tvars>>

DrainFirstOnly(first, queue) == first

\* lines 523-528: the first item, then everything queued, in queue order
DrainQueue(first, queue) == first \o queue

\* EnterSpeaking without line 571
EnterSpeakingKeepsPending(segs) ==
    /\ _is_speaking' = TRUE
    /\ _pending_interruption' = _pending_interruption
    /\ MuteIfRunning
    /\ segments' = segs
    /\ seg_index' = 1
    /\ _current_tts_text' = segs[1]
    /\ spoken' = <<segs[1]>>
    /\ int_segments' = <<>>
    /\ int_index' = 0
    /\ consumed_at' = 0
    /\ decision' = "none"
    /\ handled' = NoText
    /\ interruptions' = <<>>
    /\ failures' = 0
    /\ rpc' = "play"
    /\ timer' = 0
    /\ CallSpeak("response")
    /\ UNCHANGED split

\* lines 570-588: enter Speaking and start the first segment
EnterSpeaking(segs) ==
    /\ _is_speaking' = TRUE
    /\ _pending_interruption' = NoText
    /\ MuteIfRunning
    /\ segments' = segs
    /\ seg_index' = 1
    /\ _current_tts_text' = segs[1]
    /\ spoken' = <<segs[1]>>
    /\ int_segments' = <<>>
    /\ int_index' = 0
    /\ consumed_at' = 0
    /\ decision' = "none"
    /\ handled' = NoText
    /\ interruptions' = <<>>
    /\ failures' = 0
    /\ rpc' = "play"
    /\ timer' = 0
    /\ CallSpeak("response")
    /\ UNCHANGED split

\* lines 536-538 without the gate
GatedNever(voice, active) == FALSE

\* line 536: a Turn whose source is not voice is dropped while not active
Gated(voice, active) == ~voice /\ ~active

\* lines 530-588: the gate, the reply and either back to get or the first
\* segment, for the Turn that was drained and the mode flag read at line 536
DrainTurn(drained, active, replies) ==
    LET voice == drained[1].source = "voice"
    IN  /\ _message_queue' = <<>>
        /\ turn' = drained
        /\ reply_calls' = IF Gated(voice, active) THEN 0 ELSE 1
        /\ \E reply \in replies \cup {NoReply} :
              /\ replied' = (~Gated(voice, active) /\ reply # NoReply)
              /\ IF Gated(voice, active) \/ reply = NoReply
                 THEN /\ rpc' = "get"
                      /\ batch' = <<>>
                      /\ is_voice' = FALSE
                      /\ UNCHANGED <<muted, svars, segments, seg_index,
                                     int_segments, int_index, timer, spoken,
                                     consumed_at, decision, handled,
                                     interruptions, failures, split, kvars>>
                 ELSE /\ batch' = drained
                      /\ is_voice' = voice
                      /\ EnterSpeaking(reply)

\* lines 522-588: the sleep is over; drain, gate, generate the reply and
\* either go back to get or start playing
Drain(replies) ==
    /\ rpc = "grace"
    /\ timer = 0
    /\ DrainTurn(DrainQueue(batch, _message_queue), IsActive, replies)
    /\ UNCHANGED <<lvars, avars, arrived, window, flushed, event, heard,
                   _last_voice_input_at, tvars>>

\* lines 626-631: leave Speaking; sleep before the unmute if the listener
\* is running
ExitSpeaking ==
    /\ _is_speaking' = FALSE
    /\ _current_tts_text' = NoText
    /\ IF _running
       THEN rpc' = "unmute_wait" /\ timer' = UnmuteDelay
       ELSE rpc' = "hide" /\ timer' = 0
    /\ Release
    /\ UNCHANGED <<muted, seg_index, int_index, spoken>>

\* lines 576-588: go on with segment k of the reply, or leave the loop
Advance(k) ==
    IF k <= Len(segments)
    THEN /\ seg_index' = k
         /\ _current_tts_text' = segments[k]
         /\ spoken' = Append(spoken, segments[k])
         /\ rpc' = "play"
         /\ ReleaseThenCall("response")
         /\ UNCHANGED <<muted, _is_speaking, int_index, timer>>
    ELSE ExitSpeaking

AfterInterruptionResume(i, n) == i + 1

\* line 624: break, whatever the interruption's reply was
AfterInterruption(i, n) == n + 1

\* line 594 without the test of the Turn's source
ShouldConsumeAnySource == _pending_interruption # NoText

\* line 594: an interruption is pending and the Turn's source is voice
ShouldConsume == _pending_interruption # NoText /\ is_voice

SpeakEndsEscapes(decisions, raised) ==
    /\ rpc = "play"
    /\ _lock = "response"
    /\ rpc' = IF raised THEN "dead" ELSE "hide"
    /\ failures' = failures + (IF raised THEN 1 ELSE 0)
    /\ Release
    /\ UNCHANGED <<cvars, svars, qvars, avars, batch, is_voice, segments,
                   seg_index, int_segments, int_index, timer, turn, spoken,
                   consumed_at, decision, reply_calls, replied, handled,
                   interruptions, split, event, heard,
                   _last_voice_input_at, tvars>>

\* lines 586-624: speak() of an original segment returned, or it raised and
\* the exception was caught at 589
SpeakEnds(decisions, raised) ==
    /\ rpc = "play"
    /\ _lock = "response"
    /\ failures' = failures + (IF raised THEN 1 ELSE 0)
    /\ IF ShouldConsume
       THEN \E d \in decisions :
              /\ _pending_interruption' = NoText
              /\ consumed_at' = seg_index
              /\ decision' = d
              /\ handled' = _pending_interruption
              /\ int_segments' = IntReply(d)
              /\ IF IntReply(d) # <<>>
                 THEN /\ MuteIfRunning
                      /\ int_index' = 1
                      /\ _current_tts_text' = IntReply(d)[1]
                      /\ spoken' = Append(spoken, IntReply(d)[1])
                      /\ rpc' = "int_play"
                      /\ ReleaseThenCall("response")
                      /\ UNCHANGED <<_is_speaking, seg_index, timer>>
                 ELSE Advance(AfterInterruption(seg_index, Len(segments)))
       ELSE /\ Advance(seg_index + 1)
            /\ UNCHANGED <<_pending_interruption, consumed_at, decision,
                           handled, int_segments>>
    /\ UNCHANGED <<lvars, qvars, avars, batch, is_voice, segments, turn,
                   reply_calls, replied, interruptions, split, event, heard,
                   _last_voice_input_at, tvars>>

\* lines 594-624: speak() of an original segment returned
SpeakReturns(decisions) == SpeakEnds(decisions, FALSE)

\* lines 614-624: speak() of a segment of the interruption's reply returned,
\* or it raised and the exception was caught at 622
IntSpeakEnds(raised) ==
    /\ rpc = "int_play"
    /\ _lock = "response"
    /\ failures' = failures + (IF raised THEN 1 ELSE 0)
    /\ IF int_index < Len(int_segments)
       THEN /\ int_index' = int_index + 1
            /\ _current_tts_text' = int_segments[int_index + 1]
            /\ spoken' = Append(spoken, int_segments[int_index + 1])
            /\ ReleaseThenCall("response")
            /\ UNCHANGED <<muted, _is_speaking, seg_index, rpc, timer>>
       ELSE Advance(AfterInterruption(seg_index, Len(segments)))
    /\ UNCHANGED <<lvars, qvars, avars, _pending_interruption, batch,
                   is_voice, segments, int_segments, turn, consumed_at,
                   decision, reply_calls, replied, handled, interruptions,
                   split, event, heard, _last_voice_input_at, tvars>>

\* lines 614-624: speak() of a segment of the interruption's reply returned
IntSpeakReturns == IntSpeakEnds(FALSE)

\* lines 630-631: the sleep is over, unmute
UnmuteAfterDelay ==
    /\ rpc = "unmute_wait"
    /\ timer = 0
    /\ muted' = FALSE
    /\ rpc' = "hide"
    /\ UNCHANGED <<lvars, svars, qvars, avars, batch, is_voice, segments,
                   seg_index, int_segments, int_index, timer, turn, spoken,
                   consumed_at, decision, reply_calls, replied, handled,
                   interruptions, failures, split, event, heard, kvars,
                   _last_voice_input_at, tvars>>

\* lines 633-636: overlay.hide() returned, back to get. The locals of the
\* iteration are dead from here on; they take their initial values.
Hide ==
    /\ rpc = "hide"
    /\ rpc' = "get"
    /\ batch' = <<>>
    /\ is_voice' = FALSE
    /\ segments' = <<>>
    /\ seg_index' = 0
    /\ int_segments' = <<>>
    /\ int_index' = 0
    /\ spoken' = <<>>
    /\ consumed_at' = 0
    /\ decision' = "none"
    /\ handled' = NoText
    /\ interruptions' = <<>>
    /\ failures' = 0
    /\ UNCHANGED <<cvars, svars, qvars, avars, timer, turn, reply_calls,
                   replied, split, event, heard, kvars,
                   _last_voice_input_at, tvars>>

(***************************************************************************)
(* The AFK detector. is_afk turns true when the user has been idle for the *)
(* timeout; the monitor loop fires on_afk_start some time later; any       *)
(* keyboard or mouse activity ends both, on the input listener's thread.   *)
(***************************************************************************)
\* _flush_message_queue
FlushMessageQueue ==
    /\ _message_queue' = <<>>
    /\ flushed' = flushed \cup {_message_queue[k].id :
                                   k \in 1..Len(_message_queue)}
    /\ UNCHANGED <<arrived, window>>

\* the idle time reaches the timeout
GoIdle ==
    /\ ~idle
    /\ idle' = TRUE
    /\ UNCHANGED <<cvars, svars, qvars, _is_afk, _running, evars, rvars,
                   event, heard, kvars, _last_voice_input_at, tvars>>

\* AFKDetector.monitor_loop and XiaoTang._on_afk_start: the listener stops
MonitorFires ==
    /\ ~_is_afk
    /\ idle
    /\ _is_afk' = TRUE
    /\ _running' = FALSE
    /\ UNCHANGED <<cvars, svars, qvars, idle, evars, rvars, event, heard,
                   kvars, _last_voice_input_at, tvars>>

\* AFKDetector._on_activity and XiaoTang._on_afk_end: the queue is flushed
\* and the listener starts again
Activity ==
    /\ idle \/ _is_afk
    /\ idle' = FALSE
    /\ IF _is_afk
       THEN /\ _is_afk' = FALSE
            /\ FlushMessageQueue
            /\ _running' = TRUE
            /\ _last_voice_input_at' = 1
       ELSE UNCHANGED <<_is_afk, qvars, _running, _last_voice_input_at>>
    /\ UNCHANGED <<cvars, svars, evars, rvars, event, heard, kvars, tvars>>

(***************************************************************************)
(* The orchestrator with its environment: chat messages and transcriptions *)
(* arrive at any time, the user comes and goes. Replies are short here;    *)
(* SpecInterrupt below plays the long ones.                                *)
(***************************************************************************)
ChatTexts == {NoText, <<"o", "k">>}

ChatArrives ==
    /\ \E text \in ChatTexts : HandleDanmaku(text)
    /\ UNCHANGED <<cvars, svars, avars, rvars, event, heard, kvars,
                   _last_voice_input_at, tvars>>

\* a transcription is handled as soon as it is posted
VoiceArrives(texts) ==
    /\ \E text \in texts : HandleVoiceInput(text)
    /\ UNCHANGED <<cvars, avars, rvars, event, heard, kvars, tvars>>

Utterance == <<"h", "i">>

TurnVoice == VoiceArrives({Utterance})

ShortReplies == {r \in Replies : Len(r) = 1}

TurnDrain == Drain(ShortReplies)

TurnSpeakReturns == SpeakReturns({"persist", "fail"})

InitTurn ==
    /\ InitCapture
    /\ read_gap = FRAME_DURATION_MS
    /\ script = <<>>
    /\ input = <<>>
    /\ InitOrchestrator

NextTurn ==
    \/ ChatArrives
    \/ TurnVoice
    \/ Get
    \/ Tick
    \/ TurnDrain
    \/ TurnSpeakReturns
    \/ IntSpeakReturns
    \/ UnmuteAfterDelay
    \/ Hide
    \/ GoIdle
    \/ MonitorFires
    \/ Activity

SpecTurn == InitTurn /\ [][NextTurn]_vars

(***************************************************************************)
(* The orchestrator in assistant mode: the user is present and speaks,     *)
(* also while the bot is Speaking. A transcription is a new utterance, an  *)
(* echo of the reply, or a phrase the hallucination filter knows.          *)
(***************************************************************************)
VoiceTexts == {Utterance, <<"n", "o">>, <<"a", "a">>, <<"y", "o", "u">>}

\* a transcription arrives; one that is made the pending interruption is
\* written down
InterruptVoice ==
    /\ arrived < MaxUtterances
    /\ \E text \in VoiceTexts :
          /\ HandleVoiceInput(text)
          /\ IF Outcome(text) = "interruption"
             THEN /\ Len(interruptions) < MaxPending
                  /\ interruptions' =
                        Append(interruptions, Strip(text, Whitespace))
             ELSE UNCHANGED interruptions
    /\ UNCHANGED <<cvars, avars, rpc, batch, is_voice, segments, seg_index,
                   int_segments, int_index, timer, turn, spoken, consumed_at,
                   decision, reply_calls, replied, handled, failures, split,
                   event, heard, kvars, tvars>>

InterruptDrain == Drain(Replies)

InterruptSpeakReturns == SpeakReturns(Decisions)

NextInterrupt ==
    \/ InterruptVoice
    \/ Get
    \/ Tick
    \/ InterruptDrain
    \/ InterruptSpeakReturns
    \/ IntSpeakReturns
    \/ UnmuteAfterDelay
    \/ Hide

SpecInterrupt == InitTurn /\ [][NextInterrupt]_vars

(***************************************************************************)
(* The response loop's claims.                                             *)
(***************************************************************************)
Ids(items) == {items[k].id : k \in 1..Len(items)}

\* the items are in arrival order
Ascending(items) ==
    \A a, b \in 1..Len(items) : a < b => items[a].id < items[b].id

\* the step that ends the grace interval and drains the queue
DrainStep == rpc = "grace" /\ rpc' # "grace"

\* the step that takes the first item of the next Turn
GetStep == rpc = "get" /\ rpc' # "get"

\* C9 as claimed: once the grace interval is over, every stimulus that was
\* enqueued in it is in the Turn that was drained.
C9_GraceArrivalsInTurn == rpc # "grace" => window \subseteq Ids(turn)

\* C9: the consumer takes the first stimulus off the queue, and when its
\* grace interval is over it drains one Turn: the first stimulus followed
\* by every stimulus that was enqueued in the interval and not flushed by a
\* return from AFK in between, in arrival order. The Turn does not change
\* after the drain: a stimulus enqueued later goes to the end of the queue,
\* and the stimulus at the head of the queue becomes the first of the next
\* Turn.
C9_UnflushedGraceArrivalsInTurn ==
    [][/\ rpc' # "grace" => (window' \ flushed') \subseteq Ids(turn')
       /\ Ascending(turn')
       /\ DrainStep => /\ turn'[1] = batch[1]
                       /\ Ids(turn') = Ids(batch) \cup Ids(_message_queue)
                       /\ _message_queue' = <<>>
       /\ ~DrainStep => turn' = turn
       /\ arrived' # arrived =>
              /\ _message_queue'[Len(_message_queue')].id = arrived'
              /\ arrived' \notin Ids(turn')
       /\ GetStep => batch' = <<Head(_message_queue)>>]_vars

\* three stimuli shared one Turn, the second and the third enqueued in the
\* grace interval of the first; the fourth came after the drain and is the
\* first of the next Turn
C9_Witness ==
    /\ Ids(turn) = {1, 2, 3}
    /\ ~turn[1].grace /\ turn[2].grace /\ turn[3].grace
    /\ rpc = "grace"
    /\ Ids(batch) = {4}
    /\ ~batch[1].grace

\* C10: once an interruption is consumed after segment consumed_at of a
\* voice Turn, what is played until Speaking is exited is the segments up
\* to consumed_at followed by the segments of the interruption's reply, all
\* of them by the time Speaking is exited and none if the collaborator
\* returned nothing or failed: no later segment of the original reply is
\* played.
C10_RemainingNeverPlayed ==
    consumed_at > 0 =>
        /\ is_voice
        /\ int_segments = IntReply(decision)
        /\ \E n \in 0..Len(int_segments) :
              spoken = SubSeq(segments, 1, consumed_at)
                          \o SubSeq(int_segments, 1, n)
        /\ ~_is_speaking =>
              spoken = SubSeq(segments, 1, consumed_at) \o int_segments

\* an interruption was consumed after the first of three segments, the
\* collaborator yielded, and Speaking was exited after its two segments
C10_Witness ==
    /\ consumed_at = 1
    /\ Len(segments) = 3
    /\ decision = "yield"
    /\ ~_is_speaking
    /\ spoken = <<OriginalSegment(1), IntSegment(1), IntSegment(2)>>

(***************************************************************************)
(* The two other tasks that speak: the proactive-commentary loop and the   *)
(* handler that welcomes a new viewer. The conditions the model does not   *)
(* hold (the silence has lasted, a screenshot was taken, the viewer is new *)
(* and the cooldown over) are the environment's choice.                    *)
(***************************************************************************)
ProSegment(k) == [n \in 1..(k + 1) |-> "c"]

Comments ==
    {[k \in 1..n |-> ProSegment(k)] : n \in 1..MaxSegments}

\* lines 414-479: the 30 s sleep is over and every check passes; generate
\* the comment and start its first segment, or go back to sleep without one
ProactiveWakes(comments) ==
    /\ ppc = "sleep"
    /\ _running
    /\ ~_is_speaking
    /\ _last_voice_input_at > 0
    /\ \E reply \in comments \cup {NoReply} :
          IF reply = NoReply
          THEN UNCHANGED <<muted, _is_speaking, _current_tts_text, kvars,
                           ppc, p_segments, p_index>>
          ELSE /\ p_segments' = reply
               /\ _is_speaking' = TRUE
               /\ MuteIfRunning
               /\ p_index' = 1
               /\ _current_tts_text' = reply[1]
               /\ CallSpeak("proactive")
               /\ ppc' = "play"
    /\ _last_voice_input_at' = IF ppc' = "sleep" THEN 1
                               ELSE _last_voice_input_at
    /\ UNCHANGED <<lvars, _pending_interruption, qvars, avars, rvars, event,
                   heard, p_timer, wpc>>

\* lines 469-486: speak() of a segment of the comment returned
ProactiveSpeakReturns ==
    /\ ppc = "play"
    /\ _lock = "proactive"
    /\ IF p_index < Len(p_segments)
       THEN /\ p_index' = p_index + 1
            /\ _current_tts_text' = p_segments[p_index + 1]
            /\ ReleaseThenCall("proactive")
            /\ UNCHANGED <<_is_speaking, ppc, p_timer>>
       ELSE /\ _is_speaking' = FALSE
            /\ _current_tts_text' = NoText
            /\ Release
            /\ IF _running
               THEN ppc' = "unmute_wait" /\ p_timer' = UnmuteDelay
               ELSE ppc' = "hide" /\ p_timer' = 0
            /\ UNCHANGED p_index
    /\ UNCHANGED <<cvars, _pending_interruption, qvars, avars, rvars, event,
                   heard, _last_voice_input_at, p_segments, wpc>>

\* a tenth of a second of the proactive loop's sleep before the unmute
ProactiveTick ==
    /\ p_timer > 0
    /\ p_timer' = p_timer - 1
    /\ UNCHANGED <<cvars, svars, qvars, avars, rvars, event, heard, kvars,
                   _last_voice_input_at, ppc, p_segments, p_index, wpc>>

\* lines 485-486: the sleep is over, unmute
ProactiveUnmute ==
    /\ ppc = "unmute_wait"
    /\ p_timer = 0
    /\ muted' = FALSE
    /\ ppc' = "hide"
    /\ UNCHANGED <<lvars, svars, qvars, avars, rvars, event, heard, kvars,
                   _last_voice_input_at, p_segments, p_index, p_timer, wpc>>

\* lines 487-495: overlay.hide() returned, reset the silence timer, sleep
ProactiveHide ==
    /\ ppc = "hide"
    /\ ppc' = "sleep"
    /\ p_segments' = <<>>
    /\ p_index' = 0
    /\ _last_voice_input_at' = 1
    /\ UNCHANGED <<cvars, svars, qvars, avars, rvars, event, heard, kvars,
                   p_timer, wpc>>

\* _handle_viewer_enter and _welcome_viewer up to speak(): the mode gate is
\* the only check on the orchestrator's state
ViewerEnters ==
    /\ wpc = "idle"
    /\ IsActive
    /\ wpc' = "speak"
    /\ CallSpeak("welcome")
    /\ UNCHANGED <<cvars, svars, qvars, avars, rvars, event, heard,
                   _last_voice_input_at, ppc, p_segments, p_index, p_timer>>

\* lines 786-787: speak() of the welcome returned, the overlay is hidden
WelcomeSpeakReturns ==
    /\ wpc = "speak"
    /\ _lock = "welcome"
    /\ wpc' = "idle"
    /\ Release
    /\ UNCHANGED <<cvars, svars, qvars, avars, rvars, event, heard,
                   _last_voice_input_at, ppc, p_segments, p_index, p_timer>>

(***************************************************************************)
(* The scheduler with all its tasks: the response loop, the proactive     *)
(* loop, the welcome handler and the stimulus handlers, in every           *)
(* interleaving of their awaits.                                           *)
(***************************************************************************)
TwoSegmentReplies == {r \in Replies : Len(r) <= 2}

TasksChat ==
    /\ arrived < MaxTaskStimuli
    /\ ChatArrives

TasksVoice ==
    /\ Outcome(Utterance) = "enqueued" => arrived < MaxTaskStimuli
    /\ VoiceArrives({Utterance})

TasksDrain == Drain(TwoSegmentReplies)

TasksSpeakReturns == SpeakReturns({"persist", "fail"})

TasksProactiveWakes == ProactiveWakes({c \in Comments : Len(c) <= 2})

NextTasks ==
    \/ TasksChat
    \/ TasksVoice
    \/ Get
    \/ Tick
    \/ TasksDrain
    \/ TasksSpeakReturns
    \/ IntSpeakReturns
    \/ UnmuteAfterDelay
    \/ Hide
    \/ GoIdle
    \/ MonitorFires
    \/ Activity
    \/ TasksProactiveWakes
    \/ ProactiveSpeakReturns
    \/ ProactiveTick
    \/ ProactiveUnmute
    \/ ProactiveHide
    \/ ViewerEnters
    \/ WelcomeSpeakReturns

SpecTasks == InitTurn /\ [][NextTasks]_vars

(***************************************************************************)
(* Claims about the tasks that speak.                                      *)
(***************************************************************************)
Tasks == {"response", "proactive", "welcome"}

\* the task is between the start of its first speak() and the return of
\* its last one
InSpan(task) ==
    CASE task = "response" -> rpc \in {"play", "int_play"}
      [] task = "proactive" -> ppc = "play"
      [] task = "welcome" -> wpc = "speak"

\* C11: at most one speaking activity is in flight: no task is inside its
\* span of speak() calls while another task is inside its own.
C11_OneSpeaker ==
    Cardinality({task \in Tasks : InSpan(task)}) <= 1

\* a step that executes unmute() on a set flag
UnmuteStep == muted /\ ~muted'

\* C12: unmute() is executed only past the end of playback: never while a
\* speak() call (synthesis and playback of a segment) is in progress, and
\* only when the unmuting loop's grace delay after its last speak() is over.
C12_UnmuteAfterPlayback ==
    [][UnmuteStep =>
          /\ _lock = "free"
          /\ \/ rpc = "unmute_wait" /\ timer = 0
             \/ ppc = "unmute_wait" /\ p_timer = 0]_vars

\* the positions of the voice stimuli in a Turn
VoiceItems(items) == {k \in 1..Len(items) : items[k].source = "voice"}

\* C13: a Turn whose source is chat, drained while the mode flag says
\* inactive, is discarded without a reply-generation call and without a
\* change of the Speaking or mute state; every voice stimulus drained into a
\* Turn reaches reply generation, whatever the mode flag is.
C13_VoiceBypassesGate ==
    [][DrainStep =>
          /\ (turn'[1].source = "danmaku" /\ ~IsActive) =>
                /\ reply_calls' = 0
                /\ rpc' = "get"
                /\ UNCHANGED <<muted, svars>>
          /\ VoiceItems(turn') # {} => reply_calls' = 1]_vars

(***************************************************************************)
(* The flush of _on_afk_end runs on the input listener's thread, and the   *)
(* queue is an asyncio.Queue, which no lock protects. When the thread      *)
(* flushes between two scheduler steps the flush is the action Activity.   *)
(* The actions below are the other outcomes: the flush thread runs inside  *)
(* the response loop's get() or inside its drain loop. Two threads that    *)
(* pass the emptiness test for the last item both call popleft, and the    *)
(* loser raises: QueueEmpty or IndexError out of get() at line 518, which  *)
(* nothing catches, or IndexError out of get_nowait() at line 526, where   *)
(* only QueueEmpty is caught. The exception ends the response loop's task. *)
(***************************************************************************)
\* AFKDetector._on_activity and _on_afk_end apart from the flush
ReturnFromAFK ==
    /\ idle' = FALSE
    /\ _is_afk' = FALSE
    /\ _running' = TRUE
    /\ _last_voice_input_at' = 1

\* the items of the queue whose ids are in taken, in the queue's order
Taken(taken) == SelectSeq(_message_queue, LAMBDA item : item.id \in taken)

\* line 518 while the flush thread takes the item get() was about to take
ActivityDuringGet ==
    /\ rpc = "get"
    /\ _message_queue # <<>>
    /\ _is_afk
    /\ ReturnFromAFK
    /\ FlushMessageQueue
    /\ rpc' = "dead"
    /\ UNCHANGED <<cvars, svars, batch, is_voice, segments, seg_index,
                   int_segments, int_index, timer, turn, spoken, consumed_at,
                   decision, reply_calls, replied, handled, interruptions,
                   failures, split,
                   evars, event, heard, kvars, tvars>>

\* lines 523-528 while the flush thread empties the queue: the drain loop
\* gets some of the items, the flush the others, and the loop either sees
\* the queue empty and goes on to the gate or loses the race for an item
ActivityDuringDrain(replies) ==
    /\ rpc = "grace"
    /\ timer = 0
    /\ _is_afk
    /\ ReturnFromAFK
    /\ \E taken \in (SUBSET Ids(_message_queue)) \ {Ids(_message_queue)} :
          /\ flushed' = flushed \cup (Ids(_message_queue) \ taken)
          /\ \/ DrainTurn(batch \o Taken(taken), FALSE, replies)
             \/ /\ rpc' = "dead"
                /\ batch' = <<>>
                /\ _message_queue' = <<>>
                /\ UNCHANGED <<muted, svars, is_voice, segments, seg_index,
                               int_segments, int_index, timer, turn, spoken,
                               consumed_at, decision, reply_calls, replied,
                               handled,
                               interruptions, failures, split, kvars>>
    /\ UNCHANGED <<lvars, arrived, window, evars, event, heard, tvars>>

RaceDrain == ActivityDuringDrain(ShortReplies)

NextRace ==
    \/ NextTurn
    \/ ActivityDuringGet
    \/ RaceDrain

SpecRace == InitTurn /\ [][NextRace]_vars

\* the stimuli the program holds: on the queue or in the loop's batch
Held == Ids(_message_queue) \cup Ids(batch)

\* ids are given in arrival order, so this says every item of the first
\* sequence arrived before every item of the second
AllBefore(earlier, later) ==
    \A a \in Ids(earlier), b \in Ids(later) : a < b

\* C14: Turns partition the queued stimuli. A stimulus leaves the program's
\* hands only into the Turn being drained or by a flush, so none is lost; a
\* Turn holds only stimuli that arrived after those of the Turn before it,
\* so none is in two Turns; and a Turn is, in arrival order, the first item
\* with the items on the queue at the drain that no flush took.
C14_TurnsPartition ==
    [][/\ \A id \in Held \ Held' : id \in Ids(turn') \/ id \in flushed'
       /\ turn' # turn =>
             /\ AllBefore(turn, turn')
             /\ Ascending(turn')
             /\ Ids(turn') = Held \ flushed'
             /\ _message_queue' = <<>>]_vars

\* a step of the input listener's thread: AFKDetector._on_activity ends the
\* idle time, and the AFK state with it
ListenerStep == (idle /\ ~idle') \/ (_is_afk /\ ~_is_afk')

\* C15: the Turn queue and the Speaking state (speaking flag, current
\* segment text, pending interruption) are changed by steps of the scheduler
\* thread only: a step of the input listener's thread leaves them as they
\* are.
C15_SchedulerOwnsQueueAndSpeaking ==
    [][ListenerStep => UNCHANGED <<_message_queue, svars>>]_vars

(***************************************************************************)
(* Claims about the pending interruption.                                  *)
(***************************************************************************)
\* the step that hands the pending interruption to the decision collaborator
ConsumeStep == consumed_at = 0 /\ consumed_at' # 0

\* C16: there is one pending interruption at most. Of the transcriptions
\* made pending since Speaking was entered, the one handed to the decision
\* collaborator is the most recent, and it is the only one handed over in
\* that span: the earlier ones, and those that come after it, never are.
\* While Speaking lasts, what is pending is the most recent of them.
C16_MostRecentInterruptionHandled ==
    [][/\ ConsumeStep =>
             /\ interruptions # <<>>
             /\ handled' = interruptions[Len(interruptions)]
             /\ _pending_interruption' = NoText
       /\ (~ConsumeStep /\ handled' # handled) => handled' = NoText
       /\ (_is_speaking' /\ _pending_interruption' # NoText) =>
             /\ interruptions' # <<>>
             /\ _pending_interruption' =
                   interruptions'[Len(interruptions')]]_vars

\* two different transcriptions were made pending while one segment was
\* playing, and the second one was handed over
C16_Witness ==
    /\ Len(interruptions) = 2
    /\ interruptions[1] # interruptions[2]
    /\ handled = interruptions[2]
    /\ consumed_at = 1

\* the step that ends the segment loop of the response loop
LeaveSpeakingStep ==
    rpc \in {"play", "int_play"} /\ rpc' \notin {"play", "int_play"}

\* C17: the pending interruption is consumed only by the step on which the
\* speak() call of an original segment returns, and only in a Turn whose
\* source is voice. In a Turn whose source is chat the decision collaborator
\* is never called, and the segment loop ends with every segment played.
C17_ConsumedBetweenSegmentsOfVoiceTurn ==
    [][/\ ConsumeStep =>
             /\ rpc = "play"
             /\ _lock = "response"
             /\ is_voice
             /\ batch[1].source = "voice"
       /\ (decision' # decision \/ handled' # handled) =>
             \/ ConsumeStep
             \/ decision' = "none" /\ handled' = NoText
       /\ (LeaveSpeakingStep /\ batch[1].source = "danmaku") =>
             /\ spoken' = segments
             /\ decision' = "none"
             /\ handled' = NoText]_vars

\* a chat Turn of two segments ended with an interruption still pending,
\* and both segments were played
C17_Witness ==
    /\ rpc = "unmute_wait"
    /\ batch[1].source = "danmaku"
    /\ _pending_interruption # NoText
    /\ Len(segments) = 2
    /\ spoken = segments

(***************************************************************************)
(* Claims about the calls to the collaborators.                            *)
(***************************************************************************)
\* C18: reply generation is called once for a Turn that passes the gate and
\* not at all for a Turn the gate drops, and at no other time; the decision
\* collaborator is called once on the step that consumes an interruption
\* and at no other time. A Turn whose reply is nothing to speak ends on its
\* drain step: Speaking is not entered and the mute flag and the Speaking
\* state stay as they are.
C18_OneCallPerTurnAndInterruption ==
    [][/\ DrainStep =>
             /\ reply_calls' =
                   IF turn'[1].source = "danmaku" /\ ~IsActive THEN 0 ELSE 1
             /\ replied' => reply_calls' = 1 /\ rpc' = "play" /\ _is_speaking'
             /\ ~replied' => rpc' = "get" /\ UNCHANGED <<muted, svars>>
       /\ ~DrainStep => UNCHANGED <<reply_calls, replied>>
       /\ ConsumeStep => decision = "none" /\ decision' # "none"
       /\ (~ConsumeStep /\ decision' # decision) => decision' = "none"]_vars

\* a voice Turn passed the gate, reply generation was called and gave
\* nothing: the loop is back at get, the listener runs and is not muted
C18_Witness ==
    /\ rpc = "get"
    /\ turn # <<>>
    /\ turn[1].source = "voice"
    /\ reply_calls = 1
    /\ ~replied
    /\ _running
    /\ ~muted
    /\ ~_is_speaking

(***************************************************************************)
(* Claims about the assembly of a Segment.                                 *)
(***************************************************************************)
\* the rest of the iteration of a frame read while a Segment is open
RecordStep == pc = "process" /\ pc' = "read" /\ is_speaking

\* the silence run with the frame in hand
SilenceRun == IF frame.voiced THEN 0 ELSE silent_frame_count + 1

\* C19: while a Segment is open the silence counter rises by one on an
\* unvoiced frame and is reset to zero by a voiced one, and the Segment is
\* closed by the frame that brings the counter to SILENCE_END_FRAMES, and
\* before the maximum duration by no other. So the counter is under
\* SILENCE_END_FRAMES while a Segment is open and 0 while none is.
C19_SilenceCounter ==
    /\ [](IF is_speaking
          THEN silent_frame_count \in 0..(SILENCE_END_FRAMES - 1)
          ELSE silent_frame_count = 0)
    /\ [][RecordStep =>
             /\ is_speaking' => silent_frame_count' = SilenceRun
             /\ SilenceRun = SILENCE_END_FRAMES => ~is_speaking' /\ Closed'
             /\ (~is_speaking' /\ since_start < MAX_SPEECH_DURATION_MS) =>
                   SilenceRun = SILENCE_END_FRAMES]_vars

\* a Segment was closed by its thirtieth unvoiced frame in a row, well
\* before the maximum duration
C19_Witness ==
    /\ Closed
    /\ ~ended.muted
    /\ ended.duration < MAX_SPEECH_DURATION_MS
    /\ ~frame.voiced
    /\ ~is_speaking
    /\ silent_frame_count = 0

\* the rest of a frame's iteration, where events are posted
ProcessStep == pc = "process" /\ pc' = "read"

\* the step posts an event of this type
Posts(type) == ProcessStep /\ type \in Types(posted')

\* a Segment is opened, or the open one ends
OpenStep == ~is_speaking /\ is_speaking'

EndStep == is_speaking /\ ~is_speaking'

\* the open Segment is finalized: speech_end is posted and the gate gives
\* its verdict, with a dispatch for the Segment it admits and for no other
Finalized ==
    /\ Posts("speech_end")
    /\ Closed'
    /\ Posts("transcribe") <=> ended'.verdict = "forward"

\* the open Segment is reset by a frame read while the mute flag is set
ResetByMute ==
    /\ muted
    /\ pc = "read"
    /\ ended'.verdict = "reset"
    /\ posted' = <<>>

\* C20 as claimed: every Segment that is opened is finalized and handed to
\* the gate: speech_start and speech_end alternate, each speech_start
\* followed by one speech_end before the next, forwarded or not.
C20_EverySegmentFinalized ==
    [][/\ OpenStep <=> Posts("speech_start")
       /\ EndStep <=> Posts("speech_end")
       /\ EndStep => Finalized]_vars

\* C20: a Segment that is opened ends in one of two ways. A frame read
\* while the mute flag is set resets it: no speech_end, no gate. Otherwise
\* it is finalized and handed to the gate whatever its quality, and
\* speech_end is posted whether or not it is forwarded. So each
\* speech_start is followed, before the next one, by one speech_end or by
\* such a reset.
C20_FinalizedUnlessResetByMute ==
    [][/\ OpenStep <=> Posts("speech_start")
       /\ Posts("speech_end") => EndStep
       /\ EndStep => Finalized \/ ResetByMute]_vars

\* a Segment the gate did not admit was closed: speech_end was posted and
\* nothing was dispatched
C20_Witness ==
    /\ Closed
    /\ ended.verdict # "forward"
    /\ Types(posted) = {"speech_end"}
    /\ ~is_speaking

(***************************************************************************)
(* C21: the admission gate, seen from the closing frame.                   *)
(***************************************************************************)
\* the three conditions of the gate, read off the Segment the step closed
\* and the probe's answer at that moment
PassesGate(segment) ==
    /\ segment.duration >= MIN_SPEECH_DURATION_MS
    /\ ~QuietSegment(segment.frames)
    /\ ~segment.playing

\* C21: the frame that closes a Segment dispatches it for transcription if
\* and only if its duration is at least the floor, its average energy over
\* all its frames is at least ENERGY_THRESHOLD and the output-device probe
\* reports no activity; it dispatches it once, and no other step of the
\* capture thread dispatches anything for transcription.
C21_ForwardedIffGatePasses ==
    [][/\ Posts("transcribe") => EndStep /\ Closed'
       /\ (EndStep /\ Closed') =>
             /\ Posts("transcribe") <=> PassesGate(ended')
             /\ CountOf(posted', "transcribe") =
                    (IF PassesGate(ended') THEN 1 ELSE 0)
       /\ ~ProcessStep => posted' = posted \/ posted' = <<>>]_vars

\* a Segment long and loud enough was closed while the output device was
\* active, and nothing was dispatched
C21_Witness ==
    /\ Closed
    /\ ended.duration >= MIN_SPEECH_DURATION_MS
    /\ ~QuietSegment(ended.frames)
    /\ ended.playing
    /\ CountOf(posted, "transcribe") = 0

\* a Segment that passes the three conditions was closed and dispatched
C21_WitnessForwarded ==
    /\ Closed
    /\ PassesGate(ended)
    /\ CountOf(posted, "transcribe") = 1

(***************************************************************************)
(* C22: the mute flag is read once per frame, at the frame's mute check.   *)
(***************************************************************************)
\* the capture thread reads a frame and checks the flag
ReadStep == pc = "read" /\ muted' = muted

\* the frame is dropped before the state machine sees it
FrameDropped == pc' = "read" /\ frame' = NoFrame /\ posted' = <<>>

\* C22: what is done with a frame depends on the flag as the frame's one
\* check read it. A frame checked while the flag is set is discarded, so
\* after mute() the state machine processes no frame but the one whose
\* check had already passed; a frame checked while the flag is clear goes
\* to the state machine, so after unmute() no frame but the one already
\* checked is discarded. The state machine never processes a frame whose
\* check saw the flag set.
C22_MuteWithinOneFrame ==
    [][/\ (ReadStep /\ muted) => FrameDropped /\ ~is_speaking' /\ seen_muted'
       /\ (ReadStep /\ ~muted) => pc' = "process" /\ ~seen_muted'
       /\ ProcessStep => ~seen_muted /\ frame # NoFrame
       /\ (ProcessStep /\ muted) => pc' = "read" /\ UNCHANGED seen_muted]_vars

\* mute() came after the frame's check: the state machine processed the
\* frame, and recorded it, with the flag set
C22_Witness ==
    /\ muted
    /\ ~seen_muted
    /\ pc = "read"
    /\ frame # NoFrame
    /\ is_speaking
    /\ FrameCount(speech_frames) > SPEECH_START_FRAMES

(***************************************************************************)
(* The listener's lifecycle: the capture thread from the opening of the    *)
(* device to the end of _capture_loop, stop() on the scheduler, and the    *)
(* _transcribe_and_dispatch tasks the capture thread schedules. stop()     *)
(* blocks the scheduler while it joins the thread, so no task runs then.   *)
(***************************************************************************)
MaxReadErrors == 2

\* a task as scheduled at lines 326-333, nothing of it run yet: where it
\* is, how many requests it sent, what it was answered and the text of the
\* transcription event it delivered
NewTask ==
    [st |-> "scheduled", calls |-> 0, answer |-> NoText, text |-> NoText]

\* what the collaborator may answer: a text, nothing, blanks
Transcripts == {Utterance, NoText, <<" ", " ">>}

\* the capture thread has not returned from _capture_loop
ThreadAlive == stream \in {"unopened", "open"}

\* the scheduler is not inside stop()'s join
LoopFree == spc # "join"

OpenDeviceRetries(ok) ==
    /\ stream = "unopened"
    /\ IF ok
       THEN stream' = "open" /\ posted' = <<>>
       ELSE stream' = "unopened" /\ posted' = <<Event("error", 0, 0)>>
    /\ UNCHANGED <<muted, pc, seen_muted, frame, ring_buffer, speech_frames,
                   is_speaking, since_start, silent_frame_count, ended,
                   read_gap, script, input, tally, read_errors, ovars>>

\* Lines 213-227: open the device and start the stream; if that raises,
\* post one error event and return
OpenDevice(ok) ==
    /\ stream = "unopened"
    /\ IF ok
       THEN stream' = "open" /\ posted' = <<>>
       ELSE stream' = "failed" /\ posted' = <<Event("error", 0, 0)>>
    /\ UNCHANGED <<muted, pc, seen_muted, frame, ring_buffer, speech_frames,
                   is_speaking, since_start, silent_frame_count, ended,
                   read_gap, script, input, tally, read_errors, ovars>>

\* Line 239: the loop's test holds
LoopRuns == stream = "open" /\ pc = "read" /\ _running

\* Lines 239 and 341-344: the loop's test fails, the stream is closed
LeaveLoop ==
    /\ stream = "open"
    /\ pc = "read"
    /\ ~_running
    /\ stream' = "closed"
    /\ UNCHANGED <<muted, pc, seen_muted, frame, ring_buffer, speech_frames,
                   is_speaking, since_start, silent_frame_count, posted,
                   ended, read_gap, script, input, tally, read_errors,
                   ovars>>

ReadFailsEndsLoop(gap) ==
    /\ LoopRuns
    /\ read_errors < MaxReadErrors
    /\ read_errors' = read_errors + 1
    /\ stream' = "closed"
    /\ UNCHANGED <<muted, pc, seen_muted, frame, ring_buffer, speech_frames,
                   is_speaking, since_start, silent_frame_count, posted,
                   ended, read_gap, script, input, tally, ovars>>

\* Lines 240-243: stream.read raises after some time, the loop continues
ReadFails(gap) ==
    /\ LoopRuns
    /\ read_errors < MaxReadErrors
    /\ read_errors' = read_errors + 1
    /\ since_start' = IF is_speaking THEN since_start + gap ELSE since_start
    /\ UNCHANGED <<muted, pc, seen_muted, frame, ring_buffer, speech_frames,
                   is_speaking, silent_frame_count, posted, ended, read_gap,
                   script, input, tally, stream, ovars>>

\* Lines 239-267 with the frames of the script
ListenerRead == LoopRuns /\ ScriptRead

RECURSIVE Scheduled(_)
\* one task for each _transcribe_and_dispatch among the events posted
Scheduled(events) ==
    IF events = <<>> THEN <<>>
    ELSE (IF Head(events).type = "transcribe" THEN <<NewTask>> ELSE <<>>)
         \o Scheduled(Tail(events))

\* Lines 269-337, the dispatch of line 326 scheduling a task
ListenerProcess ==
    /\ stream = "open"
    /\ ProcessFrame
    /\ tasks' = tasks \o Scheduled(posted')
    /\ UNCHANGED <<script, input, tally, stream, read_errors, svars, qvars,
                   idle, _is_afk, _running, _http_client, spc, stale, rvars,
                   event,
                   heard, kvars, _last_voice_input_at, tvars>>

\* what _transcribe does before its await, lines 377-393: nothing without a
\* client; a client that is being closed refuses the request; otherwise
\* the request is sent
Started(task) ==
    IF _http_client = "none" THEN [task EXCEPT !.st = "empty"]
    ELSE IF _http_client = "closed" THEN [task EXCEPT !.st = "error"]
    ELSE [task EXCEPT !.st = "posted", !.calls = @ + 1]

\* Lines 358-362: the task starts; the scheduler starts the tasks in the
\* order in which run_coroutine_threadsafe handed them over
TranscribeStarts(i) ==
    /\ LoopFree
    /\ tasks[i].st = "scheduled"
    /\ \A j \in 1..(i - 1) : tasks[j].st # "scheduled"
    /\ tasks' = [tasks EXCEPT ![i] = Started(@)]
    /\ UNCHANGED <<cvars, svars, qvars, idle, _is_afk, _running,
                   _http_client, spc, stale, rvars,
                   event, heard, kvars,
                   _last_voice_input_at, tvars>>

HeardAnything(text) == TRUE

\* text and text.strip()
HeardText(text) == text # NoText /\ Strip(text, Whitespace) # NoText

\* Lines 362-375: the request is answered, the event is delivered to the
\* handlers unless the text is blank
Answered(task, text) ==
    IF HeardText(text)
    THEN [task EXCEPT !.st = "transcription", !.answer = text,
                      !.text = Strip(text, Whitespace)]
    ELSE [task EXCEPT !.st = "empty", !.answer = text]

\* Lines 372-375: the request raised, an error event is delivered
Failed(task) == [task EXCEPT !.st = "error"]

\* the await of line 362 ends, with an answer or with an exception
TranscribeReturns(i) ==
    /\ LoopFree
    /\ tasks[i].st = "posted"
    /\ \/ \E text \in Transcripts :
              tasks' = [tasks EXCEPT ![i] = Answered(@, text)]
       \/ tasks' = [tasks EXCEPT ![i] = Failed(@)]
    /\ UNCHANGED <<cvars, svars, qvars, idle, _is_afk, _running,
                   _http_client, spc, stale, rvars,
                   event, heard, kvars,
                   _last_voice_input_at, tvars>>

\* after the join of line 181: aclose() is called on the client
AfterJoin == spc' = "aclose" /\ _http_client' = "closed"

\* Lines 178-181: the flag is cleared, then the thread is joined if alive
StopBegins ==
    /\ spc \in {"idle", "returned"}
    /\ _running
    /\ _running' = FALSE
    /\ IF ThreadAlive
       THEN spc' = "join" /\ UNCHANGED _http_client
       ELSE AfterJoin
    /\ UNCHANGED <<cvars, svars, qvars, idle, _is_afk, tasks, stale, rvars,
                   event,
                   heard, kvars, _last_voice_input_at, tvars>>

\* Line 181: join returns, the thread having ended or the 3 s being over
JoinReturns(timed_out) ==
    /\ spc = "join"
    /\ timed_out <=> ThreadAlive
    /\ AfterJoin
    /\ UNCHANGED <<cvars, svars, qvars, idle, _is_afk, _running, tasks,
                   stale, rvars, event, heard, kvars, _last_voice_input_at,
                   tvars>>

\* Lines 183-187: aclose() returned, the client is forgotten
StopReturns ==
    /\ spc = "aclose"
    /\ spc' = "returned"
    /\ _http_client' = "none"
    /\ UNCHANGED <<cvars, svars, qvars, idle, _is_afk, _running, tasks,
                   stale, rvars, event, heard, kvars, _last_voice_input_at,
                   tvars>>

\* two utterances, one after the other
TwoUtterances == SpeechThenSilence \o SpeechThenSilence

\* start() has run: the thread is about to open the device
InitListener ==
    /\ InitLocals
    /\ stream = "unopened"
    /\ InitOrchestrator
    /\ read_gap = FRAME_DURATION_MS
    /\ script = TwoUtterances
    /\ input = script

ListenerOpens == \E ok \in BOOLEAN : OpenDevice(ok)

ListenerReadFails == \E gap \in {0, read_gap} : ReadFails(gap)

ListenerTask ==
    \E i \in DOMAIN tasks : TranscribeStarts(i) \/ TranscribeReturns(i)

ListenerJoin == \E timed_out \in BOOLEAN : JoinReturns(timed_out)

NextListener ==
    \/ ListenerOpens
    \/ ListenerRead
    \/ ListenerReadFails
    \/ ListenerProcess
    \/ LeaveLoop
    \/ ListenerTask
    \/ StopBegins
    \/ ListenerJoin
    \/ StopReturns

SpecListener == InitListener /\ [][NextListener]_vars

(***************************************************************************)
(* C23: transcription and shutdown.                                        *)
(***************************************************************************)
\* the step sends task i's request to the transcription collaborator
CallStarts(i) == tasks'[i].calls > tasks[i].calls

\* the step delivers task i's transcription event to the handlers
Delivers(i) == tasks[i].st # "transcription" /\ tasks'[i].st = "transcription"

\* C23 as claimed: once stop() has cleared the running flag no request is
\* sent to the transcription collaborator and no transcription event is
\* delivered to the handlers, whatever the capture thread and the tasks
\* already scheduled were doing.
C23_NothingTranscribedAfterStop ==
    [][\A i \in DOMAIN tasks :
          /\ CallStarts(i) => _running
          /\ Delivers(i) => _running]_vars

\* the part of C23 that holds: no request is sent once the flag is cleared
C23_NoCallAfterStop ==
    [][\A i \in DOMAIN tasks : CallStarts(i) => _running]_vars

(***************************************************************************)
(* C24: what stop() leaves behind.                                         *)
(***************************************************************************)
\* C24 as claimed: stop() clears the running flag before it joins the
\* capture thread, and once stop() has returned the capture device is not
\* open: the thread closed it on leaving its loop or, the join having
\* timed out, stop() closed it itself.
C24_DeviceClosedWhenStopReturns ==
    /\ spc # "idle" => ~_running
    /\ spc = "returned" => stream # "open"

(***************************************************************************)
(* C25: one request per admitted Segment.                                  *)
(***************************************************************************)
\* the task has run to its end
Over(task) == task.st \in {"transcription", "empty", "error"}

\* the text has a character that is not white space
NotBlank(text) == \E k \in 1..Len(text) : text[k] \notin Whitespace

\* C25: each Segment the gate admits gets one task, and a task sends at
\* most one request. When the request fails the task ends with an error
\* event and no transcription event; when the answer is empty or blank it
\* ends with no transcription event; a transcription event carries the
\* stripped answer. A task that is over is never run again, and no step
\* of a task touches the capture thread's state.
C25_OneCallNeverRetried ==
    /\ [](\A i \in DOMAIN tasks :
          /\ tasks[i].calls <= 1
          /\ tasks[i].st = "transcription" =>
                /\ tasks[i].calls = 1
                /\ NotBlank(tasks[i].answer)
                /\ tasks[i].text = Strip(tasks[i].answer, Whitespace)
          /\ tasks[i].st = "empty" => ~NotBlank(tasks[i].answer)
          /\ tasks[i].st = "error" => tasks[i].text = NoText)
    /\ [][/\ Len(tasks') = Len(tasks) + (IF Posts("transcribe") THEN 1 ELSE 0)
          /\ \A i \in DOMAIN tasks :
                /\ Over(tasks[i]) => tasks'[i] = tasks[i]
                /\ tasks'[i] # tasks[i] => UNCHANGED cvars]_vars

\* the first Segment's request failed, the second was answered with
\* blanks: neither gave a transcription event, and both were captured
C25_Witness ==
    /\ Len(tasks) = 2
    /\ tasks[1].st = "error"
    /\ tasks[1].calls = 1
    /\ tasks[2].st = "empty"
    /\ tasks[2].calls = 1
    /\ tasks[2].answer # NoText

(***************************************************************************)
(* C26: a read that raises.                                                *)
(***************************************************************************)
\* stream.read raised in this step
ReadErrorStep == read_errors' > read_errors

\* C26: a read that raises costs its frame and nothing else. The speaking
\* flag, the accumulated frames, the ring buffer and the silence counter
\* are as before, nothing is posted, the stream stays open and the loop is
\* at its next read; the loop is left only by its test finding the running
\* flag cleared, however many reads have raised.
C26_ReadErrorSkipsFrame ==
    [][/\ ReadErrorStep =>
             /\ UNCHANGED <<is_speaking, speech_frames, ring_buffer,
                            silent_frame_count, posted, ended, tasks>>
             /\ stream' = "open"
             /\ pc' = "read"
             /\ _running'
       /\ (stream = "open" /\ stream' # "open") => ~_running]_vars

\* both reads raised while a Segment was open, and the Segment is still
\* being recorded: its clock ran on, its frames are those read
C26_Witness ==
    /\ read_errors = MaxReadErrors
    /\ is_speaking
    /\ stream = "open"
    /\ _running
    /\ FrameCount(speech_frames) > SPEECH_START_FRAMES
    /\ since_start > (FrameCount(speech_frames) - SPEECH_START_FRAMES)
                         * FRAME_DURATION_MS

(***************************************************************************)
(* C27: the decision call fails.                                           *)
(***************************************************************************)
\* the decision call of this step raised
DecisionFails == ConsumeStep /\ decision' = "fail"

\* C27: when the decision call raises, nothing is spoken in place of the
\* segments that are left and none of them is played: the step leaves the
\* segment loop, clears the speaking flag and the current text, gives the
\* speech engine back and starts the delay before unmute. The response
\* loop lives on, and the mute flag is cleared only when that delay is
\* over.
C27_FailedDecisionExits ==
    /\ [][/\ DecisionFails =>
                /\ int_segments' = <<>>
                /\ spoken' = spoken
                /\ ~_is_speaking'
                /\ _current_tts_text' = NoText
                /\ _pending_interruption' = NoText
                /\ rpc' = "unmute_wait"
                /\ timer' = UnmuteDelay
                /\ muted' /\ muted
          /\ (muted /\ ~muted') => rpc = "unmute_wait" /\ timer = 0]_vars
    /\ [](decision = "fail" =>
             /\ ~_is_speaking
             /\ rpc \in {"unmute_wait", "hide"}
             /\ rpc = "hide" => ~muted)

\* the decision call raised after the first of three segments: Speaking
\* was exited with that one segment spoken, and the microphone is open
C27_Witness ==
    /\ decision = "fail"
    /\ consumed_at = 1
    /\ Len(segments) = 3
    /\ spoken = <<OriginalSegment(1)>>
    /\ rpc = "hide"
    /\ ~muted
    /\ ~_is_speaking

(***************************************************************************)
(* The response loop when the speech engine may fail: speak() returns or   *)
(* raises, for the reply's segments and for those of an interruption's     *)
(* reply alike.                                                            *)
(***************************************************************************)
\* the user says the same thing now and then, also while the bot speaks
PlaybackVoice ==
    /\ arrived < MaxUtterances
    /\ HandleVoiceInput(Utterance)
    /\ IF Outcome(Utterance) = "interruption"
       THEN /\ Len(interruptions) < MaxPending
            /\ interruptions' =
                  Append(interruptions, Strip(Utterance, Whitespace))
       ELSE UNCHANGED interruptions
    /\ UNCHANGED <<cvars, avars, rpc, batch, is_voice, segments, seg_index,
                   int_segments, int_index, timer, turn, spoken, consumed_at,
                   decision, reply_calls, replied, handled, failures, split,
                   event, heard, kvars, tvars>>

PlaybackSpeakEnds == \E raised \in BOOLEAN : SpeakEnds(Decisions, raised)

PlaybackIntSpeakEnds == \E raised \in BOOLEAN : IntSpeakEnds(raised)

NextPlayback ==
    \/ PlaybackVoice
    \/ Get
    \/ Tick
    \/ InterruptDrain
    \/ PlaybackSpeakEnds
    \/ PlaybackIntSpeakEnds
    \/ UnmuteAfterDelay
    \/ Hide

SpecPlayback == InitTurn /\ [][NextPlayback]_vars

(***************************************************************************)
(* C28: a segment whose playback fails.                                    *)
(***************************************************************************)
\* speak() raised in this step
PlaybackFails == failures' > failures

\* C28: a speak() that raises is the end of that segment and of nothing
\* else. Unless the step consumes an interruption, the next segment of the
\* reply is started if there is one, and Speaking is exited if there is
\* none; so with no interruption consumed the segments attempted are the
\* reply's segments, all of them and in order, however many failed. The
\* failure never leaves the response loop, and the Turn ends as any other:
\* flag and text cleared, then unmute and hide.
C28_FailureNeverStalls ==
    /\ [][PlaybackFails =>
             /\ rpc' \in {"play", "int_play", "unmute_wait"}
             /\ (rpc = "play" /\ ~ConsumeStep) =>
                   IF seg_index < Len(segments)
                   THEN /\ seg_index' = seg_index + 1
                        /\ _current_tts_text' = segments[seg_index + 1]
                        /\ spoken' = Append(spoken, segments[seg_index + 1])
                        /\ rpc' = "play"
                   ELSE /\ rpc' = "unmute_wait"
                        /\ spoken' = spoken
             /\ rpc' = "unmute_wait" =>
                   /\ ~_is_speaking'
                   /\ _current_tts_text' = NoText
                   /\ _lock' # "response"]_vars
    /\ [](/\ rpc # "dead"
          /\ (consumed_at = 0 /\ rpc \in {"play", "unmute_wait", "hide"}) =>
                spoken = SubSeq(segments, 1, seg_index)
          /\ (consumed_at = 0 /\ rpc \in {"unmute_wait", "hide"}) =>
                spoken = segments
          /\ rpc \in {"unmute_wait", "hide"} => ~_is_speaking)

\* the playback of each of the three segments failed; all three were
\* attempted, in order, and Speaking has been exited
C28_Witness ==
    /\ failures = 3
    /\ Len(segments) = 3
    /\ consumed_at = 0
    /\ spoken = segments
    /\ rpc = "hide"
    /\ ~_is_speaking
    /\ ~muted

(***************************************************************************)
(* C29: the device cannot be opened.                                       *)
(***************************************************************************)
\* the capture thread has not read or processed a frame
NothingCaptured ==
    /\ pc = "read"
    /\ frame = NoFrame
    /\ input = script
    /\ ring_buffer = <<>>
    /\ ~is_speaking
    /\ read_errors = 0
    /\ tasks = <<>>

\* C29: the capture thread's one attempt to open the device either gives
\* it the stream or ends it. When it fails the thread posts one error
\* event and returns: it has processed no frame and never will, it never
\* opens the device again, and the step changes nothing else, so the
\* running flag stays set and the orchestrator goes on.
C29_OpenFailureIsFatal ==
    /\ [][/\ (stream = "unopened" /\ <<stream, posted>>' # <<stream, posted>>)
                => \/ stream' = "open" /\ posted' = <<>>
                   \/ /\ stream' = "failed"
                      /\ posted' = <<Event("error", 0, 0)>>
                      /\ UNCHANGED <<muted, pc, frame, input, ring_buffer,
                                     speech_frames, is_speaking, ovars>>
          /\ stream = "failed" =>
                UNCHANGED <<stream, posted, pc, frame, input, tasks>>]_vars
    /\ [](stream = "failed" =>
             /\ NothingCaptured
             /\ posted = <<Event("error", 0, 0)>>)

\* the device could not be opened: one error event, no frame, the thread
\* gone, and the listener still counts as running
C29_Witness ==
    /\ stream = "failed"
    /\ posted = <<Event("error", 0, 0)>>
    /\ NothingCaptured
    /\ _running
    /\ spc = "idle"

(***************************************************************************)
(* XiaoTang._split_subtitles, the function that cuts a reply into the      *)
(* segments that are shown and spoken one at a time. A text is a sequence  *)
(* of characters; the full-width marks are written zh_ju, zh_tan, zh_wen   *)
(* (sentence), zh_dou, zh_dun, zh_fen (clause) and zh_dash (one half of    *)
(* the double dash).                                                       *)
(***************************************************************************)
max_len == 30

WordLen == 16

MaxChunks == 4

SentenceEnd == {"zh_ju", "zh_tan", "zh_wen", "!", "?"}

ClauseEnd == {"zh_dou", ",", "zh_dun", "zh_fen", ";"}

Min(S) == CHOOSE x \in S : \A y \in S : x <= y

\* where the closing marker of an emphasis that opens before g may start:
\* after one character at least, none of them a line break
Closers(s, g) ==
    {e \in (g + 1)..Len(s) :
        s[e] = "*" /\ \A k \in g..(e - 1) : s[k] # "\n"}

\* the lengths the opening marker at i may have, longest first
Openers(s, i) ==
    IF i < Len(s) /\ s[i + 1] = "*" THEN <<2, 1>> ELSE <<1>>

\* the match of \*{1,2}(.+?)\*{1,2} at i: the group and where the match
\* ends, or no match
Emphasis(s, i) ==
    LET fits == SelectSeq(Openers(s, i),
                          LAMBDA n : Closers(s, i + n) # {})
    IN IF s[i] # "*" \/ fits = <<>>
       THEN [found |-> FALSE, group |-> <<>>, end |-> i]
       ELSE LET g == i + Head(fits)
                e == Min(Closers(s, g))
                n == IF e < Len(s) /\ s[e + 1] = "*" THEN 2 ELSE 1
            IN [found |-> TRUE, group |-> SubSeq(s, g, e - 1),
                end |-> e + n - 1]

RECURSIVE StripMarkdownFrom(_, _)
StripMarkdownFrom(s, i) ==
    IF i > Len(s) THEN <<>>
    ELSE LET m == Emphasis(s, i)
         IN IF m.found
            THEN m.group \o StripMarkdownFrom(s, m.end + 1)
            ELSE <<s[i]>> \o StripMarkdownFrom(s, i + 1)

\* re.sub(r'\*{1,2}(.+?)\*{1,2}', r'\1', text)
StripMarkdown(s) == StripMarkdownFrom(s, 1)

RECURSIVE SplitAt(_, _)
\* str.split(ch)
SplitAt(s, ch) ==
    IF \A k \in 1..Len(s) : s[k] # ch THEN <<s>>
    ELSE LET k == Min({j \in 1..Len(s) : s[j] = ch})
         IN <<SubSeq(s, 1, k - 1)>> \o SplitAt(SubSeq(s, k + 1, Len(s)), ch)

\* how many white-space characters follow position i
SpaceAfter(s, i) ==
    LET stop == {j \in (i + 1)..(Len(s) + 1) :
                    j = Len(s) + 1 \/ s[j] \notin Whitespace}
    IN Min(stop) - i - 1

RECURSIVE Pieces(_, _, _, _, _)
\* re.split on '(?<=[marks])\s*', and on '(?<=--)' too when dashes is set:
\* the text is cut behind each mark, the white space that follows a mark is
\* dropped, and the text is cut behind each double dash. i is the character
\* looked at, from the start of the piece being collected.
Pieces(s, i, from, marks, dashes) ==
    IF i > Len(s) THEN <<SubSeq(s, from, Len(s))>>
    ELSE IF s[i] \in marks
    THEN LET next == i + SpaceAfter(s, i) + 1
         IN <<SubSeq(s, from, i)>> \o Pieces(s, next, next, marks, dashes)
    ELSE IF dashes /\ i > 1 /\ s[i] = "zh_dash" /\ s[i - 1] = "zh_dash"
    THEN <<SubSeq(s, from, i)>> \o Pieces(s, i + 1, i + 1, marks, dashes)
    ELSE Pieces(s, i + 1, from, marks, dashes)

RECURSIVE StrippedOfAllSpace(_)
\* each piece with all its white space taken out
StrippedOfAllSpace(pieces) ==
    IF pieces = <<>> THEN <<>>
    ELSE LET piece == SelectSeq(Head(pieces), LAMBDA ch : ch \notin Whitespace)
         IN (IF piece = <<>> THEN <<>> ELSE <<piece>>)
            \o StrippedOfAllSpace(Tail(pieces))

RECURSIVE Stripped(_)
\* each piece stripped, the ones that are empty then left out
Stripped(pieces) ==
    IF pieces = <<>> THEN <<>>
    ELSE LET piece == Strip(Head(pieces), Whitespace)
         IN (IF piece = <<>> THEN <<>> ELSE <<piece>>)
            \o Stripped(Tail(pieces))

\* every part a segment of its own
PackOneEach(parts, current) == parts

RECURSIVE Pack(_, _)
\* lines 671-680: the parts are packed, in order, into segments of at most
\* max_len characters; a part longer than that is a segment of its own
Pack(parts, current) ==
    IF parts = <<>>
    THEN (IF current # <<>> THEN <<current>> ELSE <<>>)
    ELSE IF current # <<>> /\ Len(current) + Len(Head(parts)) > max_len
    THEN <<current>> \o Pack(Tail(parts), Head(parts))
    ELSE Pack(Tail(parts), current \o Head(parts))

SplitSentenceTruncates(sentence) == <<SubSeq(sentence, 1, max_len)>>

\* lines 662-680: a sentence that fits is a segment, a longer one is cut
\* behind its clause marks and packed
SplitSentence(sentence) ==
    IF Len(sentence) <= max_len THEN <<sentence>>
    ELSE Pack(Stripped(Pieces(sentence, 1, 1, ClauseEnd, TRUE)), <<>>)

RECURSIVE Flatten(_)
Flatten(lists) ==
    IF lists = <<>> THEN <<>> ELSE Head(lists) \o Flatten(Tail(lists))

\* lines 652-680: a paragraph that fits is a segment, a longer one is cut
\* behind its sentence marks
SplitParagraph(para) ==
    IF Len(para) <= max_len THEN <<para>>
    ELSE LET sentences == Stripped(Pieces(para, 1, 1, SentenceEnd, FALSE))
         IN Flatten([k \in 1..Len(sentences) |->
                        SplitSentence(sentences[k])])

\* _split_subtitles(text)
SplitSubtitles(text) ==
    LET plain == StripMarkdown(text)
        paragraphs == Stripped(SplitAt(plain, "\n"))
        found == Flatten([k \in 1..Len(paragraphs) |->
                             SplitParagraph(paragraphs[k])])
    IN IF found # <<>> THEN found ELSE <<plain>>

(***************************************************************************)
(* The function applied to any text put together from a few pieces: a long *)
(* word, a short phrase that ends in a comma, and single characters.       *)
(***************************************************************************)
Word == [k \in 1..WordLen |-> "a"]

Phrase == [k \in 1..(WordLen \div 2) |-> "c"] \o <<"zh_dou">>

Chunks ==
    {Word, Phrase, <<"b">>, <<"!">>, <<"zh_dash">>, <<" ">>, <<"\n">>,
     <<"*">>}

RECURSIVE TextsOf(_)
TextsOf(n) ==
    IF n = 0 THEN {<<>>}
    ELSE LET shorter == TextsOf(n - 1)
         IN shorter \cup {t \o c : t \in shorter, c \in Chunks}

SplitInputs == TextsOf(MaxChunks)

\* _split_subtitles is called and returns
SplitReturns ==
    /\ ~split.done
    /\ \E text \in SplitInputs :
          split' = [text |-> text, segments |-> SplitSubtitles(text),
                    done |-> TRUE]
    /\ UNCHANGED <<cvars, svars, qvars, avars, rpc, batch, is_voice,
                   segments, seg_index, int_segments, int_index, timer, turn,
                   spoken, consumed_at, decision, reply_calls, replied,
                   handled, interruptions, failures, event, heard, kvars,
                   _last_voice_input_at, tvars>>

NextSplit == SplitReturns

SpecSplit == InitTurn /\ [][NextSplit]_vars

(***************************************************************************)
(* C30: the segments of a text. As the claim is worded, a text with no     *)
(* split point comes back as one segment equal to the text; the function   *)
(* first removes the emphasis markers, cuts the text at its line breaks    *)
(* and strips each line, so that holds of the lines, not of the text.      *)
(***************************************************************************)
NoSplitPoint(text) ==
    /\ \A k \in 1..Len(text) : text[k] \notin SentenceEnd \cup ClauseEnd
    /\ \A k \in 2..Len(text) :
          ~(text[k] = "zh_dash" /\ text[k - 1] = "zh_dash")

\* the characters of a text that are neither white space nor a marker
Letters(text) ==
    SelectSeq(text, LAMBDA ch : ch \notin Whitespace \cup {"*"})

\* C30, as stated: the function returns at least one segment and no empty
\* one, and a text with no split point is returned as the one segment
C30_WholeTextWhenNoSplitPoint ==
    split.done =>
        /\ Len(split.segments) >= 1
        /\ \A k \in 1..Len(split.segments) : split.segments[k] # <<>>
        /\ NoSplitPoint(split.text) => split.segments = <<split.text>>

\* C30, amended: the function returns at least one segment; no segment of a
\* non-empty text is empty (the empty text gives the one empty segment); a
\* text with no split point and no emphasis marker is returned line by line,
\* each non-blank line whole and stripped, whatever its length; and nothing
\* but white space and emphasis markers is ever left out
C30_LinesKeptWhole ==
    split.done =>
        /\ Len(split.segments) >= 1
        /\ split.text # NoText =>
             \A k \in 1..Len(split.segments) : split.segments[k] # <<>>
        /\ split.text = NoText => split.segments = <<NoText>>
        /\ ( /\ NoSplitPoint(split.text)
             /\ \A k \in 1..Len(split.text) : split.text[k] # "*"
             /\ Letters(split.text) # <<>> )
           => split.segments = Stripped(SplitAt(split.text, "\n"))
        /\ Letters(Flatten(split.segments)) = Letters(split.text)

\* a text longer than a segment may be, with no split point, returned whole
C30_Witness ==
    /\ split.done
    /\ NoSplitPoint(split.text)
    /\ Len(split.text) > max_len
    /\ split.segments = <<split.text>>

(***************************************************************************)
(* C31: the length of the segments. A segment is cut from the one before   *)
(* it behind a sentence mark, at the end of a line, or because the next    *)
(* clause did not fit any more.                                            *)
(***************************************************************************)
\* the first clause of a segment: up to its first clause mark or double
\* dash, the whole of it when it has none
FirstClause(seg) ==
    LET ends == {k \in 1..Len(seg) :
                    \/ seg[k] \in ClauseEnd
                    \/ k > 1 /\ seg[k] = "zh_dash" /\ seg[k - 1] = "zh_dash"
                    \/ k = Len(seg)}
    IN SubSeq(seg, 1, Min(ends))

\* a segment with a sentence or clause split point before its last character
SplitPointInside(seg) ==
    \E k \in 1..(Len(seg) - 1) :
        \/ seg[k] \in SentenceEnd \cup ClauseEnd
        \/ k > 1 /\ seg[k] = "zh_dash" /\ seg[k - 1] = "zh_dash"

IsSuffix(s, t) ==
    Len(s) <= Len(t) /\ SubSeq(t, Len(t) - Len(s) + 1, Len(t)) = s

\* the lines of a text as the function cuts them
PlainLines(text) == Stripped(SplitAt(StripMarkdown(text), "\n"))

\* the segment ends a sentence or a line of the text
EndsSentenceOrLine(seg, text) ==
    \/ seg # <<>> /\ seg[Len(seg)] \in SentenceEnd
    \/ \E k \in 1..Len(PlainLines(text)) :
          IsSuffix(Letters(seg), Letters(PlainLines(text)[k]))

\* C31: a segment is longer than max_len only if it is one clause, with no
\* split point inside it; and a sentence is cut only where the next clause
\* did not fit: a segment that ends neither a sentence nor a line is, with
\* the first clause of the next segment, longer than max_len
C31_BoundedAndPackedGreedily ==
    split.done =>
        /\ \A k \in 1..Len(split.segments) :
              Len(split.segments[k]) > max_len
                  => ~SplitPointInside(split.segments[k])
        /\ \A k \in 1..(Len(split.segments) - 1) :
              \/ EndsSentenceOrLine(split.segments[k], split.text)
              \/ Len(split.segments[k])
                    + Len(FirstClause(split.segments[k + 1])) > max_len

\* a sentence too long for one segment, cut after the clauses that fit
C31_Witness ==
    /\ split.done
    /\ \E k \in 1..(Len(split.segments) - 1) :
          /\ SplitPointInside(split.segments[k])
          /\ Len(split.segments[k]) <= max_len
          /\ ~EndsSentenceOrLine(split.segments[k], split.text)

(***************************************************************************)
(* C39: nothing is lost. The segments put together are compared with the   *)
(* text without its emphasis markers, gap by gap: gap i of a text is the   *)
(* white space between its i-th character that is not white space and the *)
(* next one, gap 0 the white space the text begins with.                   *)
(***************************************************************************)
\* the positions of the characters that are not white space, in order
Inked(s) ==
    SelectSeq([k \in 1..Len(s) |-> k], LAMBDA k : s[k] \notin Whitespace)

\* gap i of s, whose characters that are not white space are at the
\* positions at
Gap(s, at, i) ==
    SubSeq(s, IF i = 0 THEN 1 ELSE at[i] + 1,
              IF i = Len(at) THEN Len(s) ELSE at[i + 1] - 1)

\* gap i of the text lies behind a sentence mark, a clause mark or a double
\* dash, or holds a line break
AtSplitPoint(s, at, i) ==
    \/ \E k \in 1..Len(Gap(s, at, i)) : Gap(s, at, i)[k] = "\n"
    \/ /\ i > 0
       /\ \/ s[at[i]] \in SentenceEnd \cup ClauseEnd
          \/ at[i] > 1 /\ s[at[i]] = "zh_dash" /\ s[at[i] - 1] = "zh_dash"

\* gap i is where the text begins or ends
AtEnds(s, at, i) == i = 0 \/ i = Len(at)

NoStars(s) == SelectSeq(s, LAMBDA ch : ch # "*")

\* the segments hold the characters of the text, and each gap of the text
\* is either kept as it is or, where Gone allows it, left out
KeptBut(Gone(_, _, _)) ==
    LET plain == StripMarkdown(split.text)
        joined == Flatten(split.segments)
        in_plain == Inked(plain)
        in_joined == Inked(joined)
    IN /\ NoStars(plain) = NoStars(split.text)
       /\ Len(in_joined) = Len(in_plain)
       /\ \A i \in 1..Len(in_plain) :
             joined[in_joined[i]] = plain[in_plain[i]]
       /\ \A i \in 0..Len(in_plain) :
             \/ Gap(joined, in_joined, i) = Gap(plain, in_plain, i)
             \/ /\ Gap(joined, in_joined, i) = <<>>
                /\ Gone(plain, in_plain, i)

\* C39, as stated: the segments put together are the text with only the
\* emphasis markers and the white space at split points removed
C39_OnlySplitPointSpaceRemoved ==
    split.done => KeptBut(AtSplitPoint)

GoneAtSplitPointOrEnds(s, at, i) ==
    AtSplitPoint(s, at, i) \/ AtEnds(s, at, i)

\* C39, amended: the segments put together are the text with only the
\* emphasis markers, the white space at split points and line breaks, and
\* the white space the text begins and ends with removed; every other
\* character is there once and in its place
C39_NoContentLost ==
    split.done => KeptBut(GoneAtSplitPointOrEnds)

\* a text whose white space is kept inside a line and left out behind it
C39_Witness ==
    /\ split.done
    /\ \E k \in 1..Len(split.segments) :
          \E j \in 1..Len(split.segments[k]) : split.segments[k][j] = " "
    /\ Len(Flatten(split.segments)) < Len(StripMarkdown(split.text))

(***************************************************************************)
(* C40: the shortest Segment. The duration is counted from the onset, one  *)
(* read per frame, and a Segment is closed by SILENCE_END_FRAMES silent    *)
(* frames in a row at the earliest.                                        *)
(***************************************************************************)
\* C40: with one frame per frame period, every closed Segment reports a
\* duration of at least SILENCE_END_FRAMES frame periods, so none is
\* rejected as shorter than MIN_SPEECH_DURATION
C40_NeverShortAtFramePace ==
    (Closed /\ read_gap = FRAME_DURATION_MS) =>
        /\ ended.duration >= SILENCE_END_FRAMES * FRAME_DURATION_MS
        /\ ended.duration >= MIN_SPEECH_DURATION_MS
        /\ ended.verdict # "short"

\* a Segment closed by silence alone, at the shortest duration there is
C40_Witness ==
    /\ Closed
    /\ read_gap = FRAME_DURATION_MS
    /\ ended.duration = SILENCE_END_FRAMES * FRAME_DURATION_MS
    /\ ended.frames[SilentFrame.rms] = SILENCE_END_FRAMES

(***************************************************************************)
(* C32: the mute flag after speech. The response loop takes each of its    *)
(* steps in the end (the scheduler is fair to it); chat, voice and the     *)
(* user's coming and going are free to happen or not.                      *)
(***************************************************************************)
LoopFairness ==
    /\ WF_vars(Get)
    /\ WF_vars(Tick)
    /\ WF_vars(TurnDrain)
    /\ WF_vars(TurnSpeakReturns)
    /\ WF_vars(IntSpeakReturns)
    /\ WF_vars(UnmuteAfterDelay)
    /\ WF_vars(Hide)

SpecTurnFair == SpecTurn /\ LoopFairness

\* speech is over: not Speaking, and not in the sleep before the unmute
SpeechOver == ~_is_speaking /\ rpc # "unmute_wait"

\* C32, as stated: whenever speech is over and the listener is running with
\* the mute flag set, the flag is cleared in the end
C32_EventuallyUnmuted ==
    (SpeechOver /\ _running /\ muted) ~> ~muted

\* the listener was stopped while a segment was played and started again
\* after the span: it runs with the flag set and the loop waits for input
C32_DeafListener ==
    /\ rpc = "get"
    /\ SpeechOver
    /\ _running
    /\ muted

(***************************************************************************)
(* C33: the mute flag during playback. A task plays while its speak() call *)
(* holds the voice's lock.                                                 *)
(***************************************************************************)
Playing(task) == _lock = task

\* C33, as stated: whenever a task of the orchestrator is playing and the
\* listener is running, the mute flag is set
C33_MutedWhilePlaying ==
    \A task \in Tasks : (Playing(task) /\ _running) => muted

\* the same for the response loop and the proactive loop alone, which are
\* the tasks that call mute()
C33_MutedWhileLoopsPlay ==
    \A task \in {"response", "proactive"} :
        (Playing(task) /\ _running) => muted

\* the listener is started again while a segment of a reply is played
C33_StartedDuringPlayback ==
    /\ Playing("response")
    /\ _running
    /\ ~muted
    /\ wpc = "idle"
    /\ ppc = "sleep"

(***************************************************************************)
(* C34: the speaking flag and the text of the segment being played. The    *)
(* spans are those of the response loop and of the proactive loop, the two *)
(* tasks that write the flag.                                              *)
(***************************************************************************)
\* the segment whose speak() call holds the lock, in a span
SegmentPlayed ==
    CASE Playing("response") /\ rpc = "play" -> segments[seg_index]
      [] Playing("response") /\ rpc = "int_play" -> int_segments[int_index]
      [] Playing("proactive") /\ ppc = "play" -> p_segments[p_index]
      [] OTHER -> NoText

SpanInProgress == InSpan("response") \/ InSpan("proactive")

\* a transcription is enqueued as a normal stimulus
VoiceEnqueued ==
    /\ Len(_message_queue') = Len(_message_queue) + 1
    /\ _message_queue'[Len(_message_queue')].source = "voice"

\* C34, as stated: while a segment of a span is played the flag is true and
\* the text is that segment; with no span in progress the flag is false and
\* the text empty; no transcription is enqueued while a segment is played
C34_FlagAndTextFollowPlayback ==
    /\ [](/\ SegmentPlayed # NoText =>
                _is_speaking /\ _current_tts_text = SegmentPlayed
          /\ ~SpanInProgress =>
                ~_is_speaking /\ _current_tts_text = NoText)
    /\ [][SegmentPlayed # NoText => ~VoiceEnqueued]_vars

\* the proactive loop has left its span while the response loop plays: the
\* flag is false during the playback
C34_FlagClearedDuringPlayback ==
    /\ Playing("response")
    /\ rpc = "play"
    /\ ~_is_speaking

(***************************************************************************)
(* C35: one interruption per span. The span of the response loop is the    *)
(* time its segment loop runs, rpc being "play" or "int_play".             *)
(***************************************************************************)
\* the pending interruption is taken by the segment loop
Consumes ==
    /\ rpc \in {"play", "int_play"}
    /\ _pending_interruption # NoText
    /\ _pending_interruption' = NoText

\* a text is handed to the decision collaborator
HandsOver == handled' # handled /\ handled' # NoText

\* the response loop enters Speaking
EnterStep == rpc = "grace" /\ rpc' = "play"

\* C35: the segment loop takes the pending interruption once per span at
\* most, from an original segment, and plays no original segment after it;
\* nothing is handed to the decision collaborator at any other step, so
\* what becomes pending during the interruption's reply is never handled;
\* and entering the next span clears what is pending, so that whatever is
\* taken in a span has become pending in that span
C35_OneInterruptionPerSpan ==
    /\ [](consumed_at # 0 => rpc # "play")
    /\ [][/\ Consumes =>
                /\ consumed_at = 0
                /\ rpc = "play"
                /\ interruptions # <<>>
                /\ HandsOver
          /\ HandsOver => Consumes
          /\ EnterStep =>
                _pending_interruption' = NoText /\ interruptions' = <<>>]_vars

\* an interruption has been handed over and another one becomes pending
\* while the reply to the first is played
C35_Witness ==
    /\ rpc = "int_play"
    /\ consumed_at # 0
    /\ _pending_interruption # NoText
    /\ Len(interruptions) = 2

(***************************************************************************)
(* C36: the order of the transcription events. The tasks are in the order  *)
(* in which their Segments were closed and dispatched.                     *)
(***************************************************************************)
\* C36, as stated: the transcription event of a Segment is never delivered
\* after that of a Segment dispatched later
C36_DeliveredInDispatchOrder ==
    [][\A i \in DOMAIN tasks :
          Delivers(i) =>
              \A j \in DOMAIN tasks :
                  j > i => tasks[j].st # "transcription"]_vars

\* the second Segment's event has been delivered while the request of the
\* first, sent earlier, is still unanswered
C36_Overtaken ==
    /\ Len(tasks) = 2
    /\ tasks[1].st = "posted"
    /\ tasks[2].st = "transcription"

(***************************************************************************)
(* The listener stopped and started again. A capture thread that the 3 s   *)
(* join of stop() did not see end is still inside a call when start() makes *)
(* the next thread; it tests the running flag when the call returns. The   *)
(* model keeps the new thread's locals and, of the old thread, only where  *)
(* it is: "blocked" in its call, "reading" in its loop again, or "none".   *)
(***************************************************************************)
\* Lines 229-236: the locals of a thread that enters _capture_loop
FreshThread ==
    /\ pc' = "read"
    /\ frame' = NoFrame
    /\ ring_buffer' = <<>>
    /\ speech_frames' = NoFrames
    /\ is_speaking' = FALSE
    /\ since_start' = 0
    /\ silent_frame_count' = 0
    /\ posted' = <<>>
    /\ ended' = NoSegment
    /\ stream' = "unopened"

\* VoiceListener.start: nothing if the flag is set; otherwise a new client,
\* the flag, and a new thread, whatever became of the one before
StartListener ==
    /\ LoopFree
    /\ IF _running
       THEN UNCHANGED <<lvars, _running, _http_client, stale>>
       ELSE /\ _running' = TRUE
            /\ _http_client' = "open"
            /\ stale' = IF ~ThreadAlive THEN stale
                        ELSE IF stale = "reading" THEN "reading"
                        ELSE "blocked"
            /\ FreshThread
            /\ UNCHANGED <<seen_muted, read_gap, script, input, tally,
                           read_errors>>
    /\ UNCHANGED <<muted, svars, qvars, idle, _is_afk, spc, tasks, rvars,
                   event, heard, kvars, _last_voice_input_at, tvars>>

\* Line 239 in the thread that outlived its stop(): its call has returned
\* and it tests the flag, which the start() after the stop() has set again
StaleThreadTests ==
    /\ stale # "none"
    /\ stale' = IF _running THEN "reading" ELSE "none"
    /\ UNCHANGED <<cvars, svars, qvars, idle, _is_afk, _running,
                   _http_client, spc, tasks, rvars, event, heard, kvars,
                   _last_voice_input_at, tvars>>

InitRestart ==
    /\ InitLocals
    /\ stream = "unopened"
    /\ InitOrchestrator
    /\ read_gap = FRAME_DURATION_MS
    /\ script = SpeechThenSilence
    /\ input = script

NextRestart ==
    \/ ListenerOpens
    \/ ListenerRead
    \/ ListenerProcess
    \/ LeaveLoop
    \/ ListenerTask
    \/ StopBegins
    \/ ListenerJoin
    \/ StopReturns
    \/ StartListener
    \/ StaleThreadTests

SpecRestart == InitRestart /\ [][NextRestart]_vars

(***************************************************************************)
(* C37: one capture thread.                                                *)
(***************************************************************************)
\* C37, as stated: no thread of an earlier start() is in its loop, reading
\* the device, while the thread of the last start() is
C37_OneCaptureThread ==
    ~(stale = "reading" /\ stream = "open" /\ _running)

(***************************************************************************)
(* C38: the running flag and the thread.                                   *)
(***************************************************************************)
\* C38, as stated: while the flag is set the thread of the last start() is
\* alive, about to open the device or holding it open
C38_RunningMeansCapturing == _running => ThreadAlive

\* the device could not be opened: the thread has ended, the flag is set,
\* and start() finds it set
C38_EndedButRunning ==
    /\ stream = "failed"
    /\ _running
    /\ spc = "idle"
    /\ ENABLED StartListener

=============================================================================
